---- MODULE Spec2Model ----
\* Verification model of cdns: DNS backend detection (internal/dns/backend/detector.go),
\* configuration reading (backend/reader.go), configuration writing (backend/writer.go)
\* and the reset feature (internal/features/reset/reset.go).
EXTENDS Integers, Sequences, FiniteSets, TLC

VARIABLES
    probe,  \* the results the SystemOps probes give on this host
    det,    \* the last call of the detector and what it returned
    host,   \* the backend whose tools work on this host
    nm,     \* NetworkManager's state: per device the profile and the servers in effect
    sr,     \* systemd-resolved's state: per link its DNS servers
    last    \* the last call of the reader, the writer or a command, and its outcome

vars == <<probe, det, host, nm, sr, last>>

\* ---------------------------------------------------------------------------
\* models.Backend
\* ---------------------------------------------------------------------------
BackendNetworkManager == "NetworkManager"
BackendSystemdResolved == "systemd-resolved"
BackendResolvConf == "resolv.conf"
BackendNetplan == "netplan"
\* the zero value of models.Backend (the empty string)
NoBackend == ""
\* a nil error
Nil == "nil"

\* ---------------------------------------------------------------------------
\* SystemOps: the probe results the detector consumes
\* ---------------------------------------------------------------------------
\* a (bool, error) result as ServiceRunning, IsSymlink and IsRegularFile return it
BoolErr == [val : BOOLEAN, err : BOOLEAN]

SystemOps ==
    [ nmService : BoolErr,          \* ServiceRunning("NetworkManager")
      nmcli : BOOLEAN,              \* CommandExists("nmcli")
      resolvectl : BOOLEAN,         \* CommandExists("resolvectl")
      systemdResolve : BOOLEAN,     \* CommandExists("systemd-resolve")
      srService : BoolErr,          \* ServiceRunning("systemd-resolved")
      fileExists : BOOLEAN,         \* FileExists("/etc/resolv.conf")
      isSymlink : BoolErr,          \* IsSymlink("/etc/resolv.conf")
      isRegular : BoolErr ]         \* IsRegularFile("/etc/resolv.conf")

\* the reason literals of DetectWithReason
ReasonNM == "nmcli command available and NetworkManager service is running"
\* a justification that names resolvectl whichever tool was found
ReasonSRPrimaryName(cmdName) == "resolvectl command available and systemd-resolved service is running"

ReasonSR(cmdName) == cmdName \o " command available and systemd-resolved service is running"
ReasonSymlink == "resolv.conf is a symlink (managed by a service)"
ReasonResolvConf == "/etc/resolv.conf exists and is a regular file (not managed by a service)"
ReasonNone == "no supported DNS backend found"

\* the errors of DetectWithReason
ErrNmcliMissing == "NetworkManager is running but 'nmcli' command is missing"
ErrSRStatus == "failed to check systemd-resolved status"
ErrSymlinkCheck == "failed to check if resolv.conf is a symlink"
ErrManaged == "resolv.conf is managed by a service"
ErrRegularCheck == "failed to check if resolv.conf is a regular file"
ErrNoBackend == "no supported DNS backend found"

DetectResult(b, r, e, c) == [backend |-> b, reason |-> r, err |-> e, calls |-> c]

\* a resolv.conf step that selects any existing non-symlink path, regular file or not
DetectResolvConfAnyFile(p, c) ==
    IF ~p.fileExists
    THEN DetectResult(NoBackend, ReasonNone, ErrNoBackend, Append(c, "FileExists"))
    ELSE IF p.isSymlink.err
    THEN DetectResult(NoBackend, "", ErrSymlinkCheck, c \o <<"FileExists", "IsSymlink">>)
    ELSE IF p.isSymlink.val
    THEN DetectResult(NoBackend, ReasonSymlink, ErrManaged, c \o <<"FileExists", "IsSymlink">>)
    ELSE DetectResult(BackendResolvConf, ReasonResolvConf, Nil,
                      c \o <<"FileExists", "IsSymlink", "IsRegularFile">>)

\* step 3 of DetectWithReason: the unmanaged /etc/resolv.conf, and the final fallthrough.
\* c is the sequence of SystemOps calls made so far.
DetectResolvConf(p, c) ==
    LET c1 == Append(c, "FileExists")
        c2 == Append(c1, "IsSymlink")
        c3 == Append(c2, "IsRegularFile")
    IN  IF p.fileExists
        THEN IF p.isSymlink.err
             THEN DetectResult(NoBackend, "", ErrSymlinkCheck, c2)
             ELSE IF p.isSymlink.val
             THEN DetectResult(NoBackend, ReasonSymlink, ErrManaged, c2)
             ELSE IF p.isRegular.err
             THEN DetectResult(NoBackend, "", ErrRegularCheck, c3)
             ELSE IF p.isRegular.val
             THEN DetectResult(BackendResolvConf, ReasonResolvConf, Nil, c3)
             ELSE DetectResult(NoBackend, ReasonNone, ErrNoBackend, c3)
        ELSE DetectResult(NoBackend, ReasonNone, ErrNoBackend, c1)

\* a systemd-resolved step that asks for the service whether or not a tool was found
DetectSystemdResolvedAnyTool(p, c) ==
    LET c1 == c \o <<"CommandExists(resolvectl)", "CommandExists(systemd-resolve)">>
        c2 == Append(c1, "ServiceRunning(systemd-resolved)")
    IN  IF p.srService.err
        THEN DetectResult(NoBackend, "", ErrSRStatus, c2)
        ELSE IF p.srService.val
        THEN DetectResult(BackendSystemdResolved,
                          ReasonSR(IF ~p.resolvectl THEN "systemd-resolve" ELSE "resolvectl"),
                          Nil, c2)
        ELSE DetectResolvConf(p, c2)

\* step 2 of DetectWithReason: systemd-resolved
DetectSystemdResolved(p, c) ==
    LET c1 == c \o <<"CommandExists(resolvectl)", "CommandExists(systemd-resolve)">>
        c2 == Append(c1, "ServiceRunning(systemd-resolved)")
    IN  IF p.resolvectl \/ p.systemdResolve
        THEN IF p.srService.err
             THEN DetectResult(NoBackend, "", ErrSRStatus, c2)
             ELSE IF p.srService.val
             THEN DetectResult(BackendSystemdResolved,
                               ReasonSR(IF ~p.resolvectl THEN "systemd-resolve" ELSE "resolvectl"),
                               Nil, c2)
             ELSE DetectResolvConf(p, c2)
        ELSE DetectResolvConf(p, c1)

\* a detector that decides on the installed commands alone
DetectInstalledOnly(p) ==
    LET c1 == <<"ServiceRunning(NetworkManager)">>
        c2 == Append(c1, "CommandExists(nmcli)")
    IN  IF p.nmcli
        THEN DetectResult(BackendNetworkManager, ReasonNM, Nil, c2)
        ELSE IF p.resolvectl \/ p.systemdResolve
        THEN DetectResult(BackendSystemdResolved,
                          ReasonSR(IF ~p.resolvectl THEN "systemd-resolve" ELSE "resolvectl"),
                          Nil, c2 \o <<"CommandExists(resolvectl)", "CommandExists(systemd-resolve)">>)
        ELSE DetectResolvConf(p, c2 \o <<"CommandExists(resolvectl)", "CommandExists(systemd-resolve)">>)

\* a detector that tries systemd-resolved and resolv.conf before NetworkManager
DetectLowPriorityFirst(p) ==
    LET low == DetectSystemdResolved(p, <<>>)
        c1 == Append(low.calls, "ServiceRunning(NetworkManager)")
        c2 == Append(c1, "CommandExists(nmcli)")
    IN  IF low.err = Nil
        THEN low
        ELSE IF p.nmService.val
        THEN IF p.nmcli
             THEN DetectResult(BackendNetworkManager, ReasonNM, Nil, c2)
             ELSE DetectResult(NoBackend, "", ErrNmcliMissing, c2)
        ELSE [low EXCEPT !.calls = c1]

\* a detector that falls through to the lower-priority steps when nmcli is missing
DetectFallThroughOnMissingTool(p) ==
    LET c1 == <<"ServiceRunning(NetworkManager)">>
        c2 == Append(c1, "CommandExists(nmcli)")
    IN  IF p.nmService.val
        THEN IF p.nmcli
             THEN DetectResult(BackendNetworkManager, ReasonNM, Nil, c2)
             ELSE DetectSystemdResolved(p, c2)
        ELSE DetectSystemdResolved(p, c1)

\* a detector that treats a symlinked resolv.conf as an unmanaged file
DetectSymlinkAsFile(p) ==
    LET c1 == <<"ServiceRunning(NetworkManager)">>
        c2 == Append(c1, "CommandExists(nmcli)")
        q == [p EXCEPT !.isSymlink = [val |-> FALSE, err |-> p.isSymlink.err]]
    IN  IF p.nmService.val
        THEN IF p.nmcli
             THEN DetectResult(BackendNetworkManager, ReasonNM, Nil, c2)
             ELSE DetectResult(NoBackend, "", ErrNmcliMissing, c2)
        ELSE DetectSystemdResolved(q, c1)

\* Detector.DetectWithReason: the error of ServiceRunning("NetworkManager") is discarded
DetectWithReason(p) ==
    LET c1 == <<"ServiceRunning(NetworkManager)">>
        c2 == Append(c1, "CommandExists(nmcli)")
    IN  IF p.nmService.val
        THEN IF p.nmcli
             THEN DetectResult(BackendNetworkManager, ReasonNM, Nil, c2)
             ELSE DetectResult(NoBackend, "", ErrNmcliMissing, c2)
        ELSE DetectSystemdResolved(p, c1)

\* a detector that answers netplan where DetectWithReason finds no backend
DetectOrNetplan(p) ==
    LET r == DetectWithReason(p)
    IN  IF r.err = ErrNoBackend
        THEN [backend |-> BackendNetplan, err |-> Nil, calls |-> r.calls]
        ELSE [backend |-> r.backend, err |-> r.err, calls |-> r.calls]

\* Detector.Detect: DetectWithReason with the reason dropped
Detect(p) ==
    LET r == DetectWithReason(p)
    IN  [backend |-> r.backend, err |-> r.err, calls |-> r.calls]

\* ---------------------------------------------------------------------------
\* Go strings. A string is a sequence of tokens; a token is one of the characters the
\* code splits or matches on (":", " ", "(", ")", "-", "#") or a run of other characters.
\* ---------------------------------------------------------------------------
EmptyString == <<>>

IsNonEmpty(s) == s # <<>>

\* strings.Index for a one-character separator: 0 when absent
IndexOf(s, ch) ==
    IF \E i \in 1..Len(s) : s[i] = ch
    THEN CHOOSE i \in 1..Len(s) : s[i] = ch /\ \A j \in 1..(i - 1) : s[j] # ch
    ELSE 0

\* strings.Contains
Contains(s, ch) == IndexOf(s, ch) # 0

\* strings.HasPrefix
HasPrefix(s, pre) == Len(s) >= Len(pre) /\ SubSeq(s, 1, Len(pre)) = pre

\* strings.Join
RECURSIVE Join(_, _)
Join(elems, sep) ==
    IF elems = <<>> THEN <<>>
    ELSE IF Len(elems) = 1 THEN elems[1]
    ELSE elems[1] \o sep \o Join(Tail(elems), sep)

\* strings.Split on a one-character separator
RECURSIVE Split(_, _)
Split(s, ch) ==
    LET i == IndexOf(s, ch)
    IN  IF i = 0 THEN <<s>>
        ELSE <<SubSeq(s, 1, i - 1)>> \o Split(SubSeq(s, i + 1, Len(s)), ch)

\* strings.SplitN(s, ch, 2)
SplitN2(s, ch) ==
    LET i == IndexOf(s, ch)
    IN  IF i = 0 THEN <<s>>
        ELSE <<SubSeq(s, 1, i - 1), SubSeq(s, i + 1, Len(s))>>

\* strings.Fields: the non-empty parts between spaces
Fields(s) == SelectSeq(Split(s, " "), IsNonEmpty)

RECURSIVE TrimLeftSpace(_)
TrimLeftSpace(s) ==
    IF s # <<>> /\ Head(s) = " " THEN TrimLeftSpace(Tail(s)) ELSE s

RECURSIVE TrimRightSpace(_)
TrimRightSpace(s) ==
    IF s # <<>> /\ s[Len(s)] = " " THEN TrimRightSpace(SubSeq(s, 1, Len(s) - 1)) ELSE s

\* strings.TrimSpace
TrimSpace(s) == TrimRightSpace(TrimLeftSpace(s))

\* ---------------------------------------------------------------------------
\* The host: devices, addresses and the state the external tools keep
\* ---------------------------------------------------------------------------
Eth0 == <<"eth0">>
Wlan0 == <<"wlan0">>
Br0 == <<"br0">>
Tun0 == <<"tun0">>

\* the devices of the host, in the order the tools list them
Devices == <<Eth0, Wlan0, Br0, Tun0>>

DeviceSet == {Devices[i] : i \in 1..Len(Devices)}

\* the active connection profile of each device (Tun0 is disconnected)
ConnOf(dev) ==
    IF dev = Eth0 THEN <<"Wired">>
    ELSE IF dev = Wlan0 THEN <<"Wifi">>
    ELSE IF dev = Br0 THEN <<"Bridge">>
    ELSE EmptyString

\* address literals
Pool4 == << <<"9", ".", "9">>, <<"1", ".", "1">>, <<"8", ".", "8">> >>
Pool6 == << <<"2620", ":", ":", "9">>, <<"2606", ":", ":", "1">> >>

\* the servers DHCP supplies on each device (none on Br0)
Dhcp4(dev) == IF dev = Eth0 THEN << <<"192", ".", "1">> >> ELSE <<>>
Dhcp6(dev) == IF dev = Wlan0 THEN << <<"fe80", ":", ":", "1">> >> ELSE <<>>

\* the longest IPv4 and IPv6 server lists a caller passes
MaxV4 == 2
MaxV6 == 1
\* the longest sequence of configs or interface names a caller passes
MaxCfgs == 2

Lists4 == {SubSeq(Pool4, 1, n) : n \in 0..MaxV4} \cup {SubSeq(Pool4, 2, 2)}
Lists6 == {SubSeq(Pool6, 1, n) : n \in 0..MaxV6}

\* NetworkManager: per device the connection profile (ipv4.dns, ipv4.ignore-auto-dns,
\* ipv6.dns, ipv6.ignore-auto-dns) and the servers in effect (IP4.DNS, IP6.DNS)
NmProfile(d4, d6, r4, r6) ==
    [dns4 |-> d4, ign4 |-> d4 # <<>>, dns6 |-> d6, ign6 |-> d6 # <<>>, run4 |-> r4, run6 |-> r6]

\* the servers in effect on a device once its profile is applied
Effective4(pr, dev) == pr.dns4 \o (IF pr.ign4 THEN <<>> ELSE Dhcp4(dev))
Effective6(pr, dev) == pr.dns6 \o (IF pr.ign6 THEN <<>> ELSE Dhcp6(dev))

NmSynced(d4, d6, dev) ==
    LET pr == NmProfile(d4, d6, <<>>, <<>>)
    IN  [pr EXCEPT !.run4 = Effective4(pr, dev), !.run6 = Effective6(pr, dev)]

NmAutomatic(dev) == NmSynced(<<>>, <<>>, dev)

\* an external command as the code spawns it
Cmd(tool, verb, target, key, value, flag, argv) ==
    [tool |-> tool, verb |-> verb, target |-> target, key |-> key, value |-> value,
     flag |-> flag, argv |-> argv]

NmcliDeviceShow(iface) == Cmd("nmcli", "-g GENERAL.CONNECTION device show", iface, "", <<>>, "", <<>>)
NmcliModify(conn, key, value, flag) == Cmd("nmcli", "connection modify", conn, key, value, flag, <<>>)
NmcliReapply(iface) == Cmd("nmcli", "device reapply", iface, "", <<>>, "", <<>>)
ResolvectlDNS(iface, servers) == Cmd("resolvectl", "dns", iface, "", <<>>, "", servers)
ResolvectlRevert(iface) == Cmd("resolvectl", "revert", iface, "", <<>>, "", <<>>)
NmcliShowActive == Cmd("nmcli", "-t -f NAME,DEVICE connection show --active", <<>>, "", <<>>, "", <<>>)
\* a per-connection query that clears the connection's IPv4 servers
NmcliClearDNS(conn) == Cmd("nmcli", "connection modify", conn, "ipv4.dns", <<>>, "no", <<>>)
NmcliShowDNS(conn) == Cmd("nmcli", "-t -f IP4.DNS,IP6.DNS connection show", conn, "", <<>>, "", <<>>)
ResolveStatus(tool) ==
    Cmd(tool, IF tool = "resolvectl" THEN "status" ELSE "--status", <<>>, "", <<>>, "", <<>>)

\* the outcome of a command: exit status, output, and the tools' state after it
Outcome(ok, out, nmS, srS) == [ok |-> ok, out |-> out, nm |-> nmS, sr |-> srS]

\* nmcli and resolvectl as the writer drives them
Exec(h, nmS, srS, c) ==
    LET failed == Outcome(FALSE, <<>>, nmS, srS)
    IN  IF c.tool = "nmcli" /\ h = BackendNetworkManager
        THEN IF c.verb = "-g GENERAL.CONNECTION device show"
             THEN IF c.target \in DeviceSet
                  THEN Outcome(TRUE, ConnOf(c.target), nmS, srS)
                  ELSE failed
             ELSE IF c.verb = "connection modify"
             THEN LET devs == {d \in DeviceSet : ConnOf(d) # <<>> /\ ConnOf(d) = c.target}
                  IN  IF devs = {} THEN failed
                      ELSE LET d == CHOOSE x \in devs : TRUE
                               servers == Fields(c.value)
                           IN  IF c.key = "ipv4.dns"
                               THEN Outcome(TRUE, <<>>,
                                       [nmS EXCEPT ![d].dns4 = servers, ![d].ign4 = (c.flag = "yes")], srS)
                               ELSE Outcome(TRUE, <<>>,
                                       [nmS EXCEPT ![d].dns6 = servers, ![d].ign6 = (c.flag = "yes")], srS)
             ELSE IF c.target \in DeviceSet /\ ConnOf(c.target) # <<>>
             THEN Outcome(TRUE, <<>>,
                     [nmS EXCEPT ![c.target].run4 = Effective4(nmS[c.target], c.target),
                                 ![c.target].run6 = Effective6(nmS[c.target], c.target)], srS)
             ELSE failed
        ELSE IF c.tool = "resolvectl" /\ h = BackendSystemdResolved
        THEN IF c.target \notin DeviceSet THEN failed
             ELSE IF c.verb = "dns"
             THEN Outcome(TRUE, <<>>, nmS, [srS EXCEPT ![c.target] = c.argv])
             ELSE Outcome(TRUE, <<>>, nmS, [srS EXCEPT ![c.target] = Dhcp4(c.target) \o Dhcp6(c.target)])
        ELSE failed

\* the tools' state after a sequence of commands has run
RECURSIVE EffectFrom(_, _, _, _)
EffectFrom(h, o, cmds, i) ==
    IF i > Len(cmds) THEN o
    ELSE EffectFrom(h, Exec(h, o.nm, o.sr, cmds[i]), cmds, i + 1)

Effect(h, nmS, srS, cmds) == EffectFrom(h, Outcome(TRUE, <<>>, nmS, srS), cmds, 1)

\* ---------------------------------------------------------------------------
\* ConfigWriter (writer.go)
\* ---------------------------------------------------------------------------
\* models.DNSConfig: the interface name and the two server lists
DNSConfig(name, v4, v6) == [iface |-> name, ipv4 |-> v4, ipv6 |-> v6]

\* an error of the writer: which step failed, for which interface
WriteErr(kind, iface) == [kind |-> kind, iface |-> iface]
NoErr == WriteErr(Nil, EmptyString)

\* the run of one writer call: the tools' state, the commands issued so far, the
\* outcome of the last command, and the ordinal of the command the environment fails
\* (0: none)
Run(h, nmS, srS, failAt) ==
    [host |-> h, nm |-> nmS, sr |-> srS, failAt |-> failAt, log |-> <<>>, ok |-> TRUE,
     out |-> <<>>, err |-> NoErr, at |-> 0]

\* the inverted check: err != nil taken for success
CmdSucceededInverted(injected, o) == ~(~injected /\ o.ok)

\* exec.CommandContext(...).CombinedOutput(): err == nil
CmdSucceeded(injected, o) == ~injected /\ o.ok

\* the run after a command c whose outcome is o
Spawned(r, c, o, injected) ==
    IF ~injected /\ o.ok
    THEN [r EXCEPT !.log = Append(@, c), !.ok = CmdSucceeded(injected, o), !.out = o.out,
                   !.nm = o.nm, !.sr = o.sr]
    ELSE [r EXCEPT !.log = Append(@, c), !.ok = CmdSucceeded(injected, o), !.out = <<>>]

\* spawn one command and wait for it
Spawn(r, c) == Spawned(r, c, Exec(r.host, r.nm, r.sr, c), Len(r.log) + 1 = r.failAt)

Fail(r, kind, iface) == [r EXCEPT !.err = WriteErr(kind, iface)]

\* a lookup that accepts an empty connection name
gotNMConnectionOrNone(r1) ==
    IF ~r1.ok THEN r1 ELSE [r1 EXCEPT !.out = TrimSpace(r1.out)]

\* getNMConnection after its command: the trimmed output in out, or ok = FALSE
gotNMConnection(r1) ==
    IF ~r1.ok THEN r1
    ELSE IF TrimSpace(r1.out) = EmptyString THEN [r1 EXCEPT !.ok = FALSE]
    ELSE [r1 EXCEPT !.out = TrimSpace(r1.out)]

\* ConfigWriter.getNMConnection
getNMConnection(r, iface) == gotNMConnection(Spawn(r, NmcliDeviceShow(iface)))

\* applyNetworkManager, one config: after the reapply
applyNMReapplied(r4, cfg) ==
    IF ~r4.ok THEN Fail(r4, "failed to reapply configuration on device", cfg.iface) ELSE r4

\* applyNetworkManager, one config: after the IPv6 step
applyNMReapply(r3, cfg) ==
    IF ~r3.ok THEN Fail(r3, "failed to set IPv6 DNS", cfg.iface)
    ELSE applyNMReapplied(Spawn(r3, NmcliReapply(cfg.iface)), cfg)

\* an IPv6 step that modifies ipv6.dns whether or not the list is empty
applyNMSetIPv6Always(r2, connName, cfg) ==
    IF ~r2.ok THEN Fail(r2, "failed to set IPv4 DNS", cfg.iface)
    ELSE applyNMReapply(Spawn(r2, NmcliModify(connName, "ipv6.dns", Join(cfg.ipv6, <<" ">>), "yes")),
                        cfg)

\* applyNetworkManager, one config: after the IPv4 step
applyNMSetIPv6(r2, connName, cfg) ==
    IF ~r2.ok THEN Fail(r2, "failed to set IPv4 DNS", cfg.iface)
    ELSE applyNMReapply(IF Len(cfg.ipv6) > 0
                        THEN Spawn(r2, NmcliModify(connName, "ipv6.dns", Join(cfg.ipv6, <<" ">>), "yes"))
                        ELSE r2,
                        cfg)

\* applyNetworkManager, one config: after the connection lookup
applyNMSetIPv4(r1, cfg) ==
    IF ~r1.ok THEN Fail(r1, "failed to get active connection", cfg.iface)
    ELSE applyNMSetIPv6(IF Len(cfg.ipv4) > 0
                        THEN Spawn(r1, NmcliModify(r1.out, "ipv4.dns", Join(cfg.ipv4, <<" ">>), "yes"))
                        ELSE r1,
                        r1.out, cfg)

\* the body of applyNetworkManager's loop
applyNMStep(r, cfg) ==
    IF cfg.iface = EmptyString THEN r
    ELSE applyNMSetIPv4(getNMConnection(r, cfg.iface), cfg)

\* the first error, kept while a loop carries on
KeepFirst(r, r1, i) ==
    IF r.err # NoErr THEN [r1 EXCEPT !.err = r.err, !.at = r.at]
    ELSE IF r1.err # NoErr THEN [r1 EXCEPT !.at = i]
    ELSE r1

\* a loop over the configs that records the first error and carries on
RECURSIVE applyNMContinue(_, _, _)
applyNMContinue(r, configs, i) ==
    IF i > Len(configs) THEN r
    ELSE applyNMContinue(KeepFirst(r, applyNMStep([r EXCEPT !.err = NoErr], configs[i]), i),
                         configs, i + 1)

applyNetworkManagerContinue(r, configs) == applyNMContinue(r, configs, 1)

\* the loop returns as soon as a step has failed
Stopped(r1) == r1.err # NoErr

\* the position in the list at which the loop returned
ReturnedAt(r1, i) == IF Stopped(r1) THEN [r1 EXCEPT !.at = i] ELSE r1

\* ConfigWriter.applyNetworkManager: for _, cfg := range configs, return at the first error
RECURSIVE applyNMFrom(_, _, _)
applyNMFrom(r, configs, i) ==
    IF i > Len(configs) \/ Stopped(r) THEN r
    ELSE applyNMFrom(ReturnedAt(applyNMStep(r, configs[i]), i), configs, i + 1)

applyNetworkManager(r, configs) == applyNMFrom(r, configs, 1)

\* applySystemdResolved, one config: after the resolvectl call
applySRSet(r1, cfg) ==
    IF ~r1.ok THEN Fail(r1, "failed to set DNS via resolvectl", cfg.iface) ELSE r1

\* a loop body that binds the IPv4 servers only
applySRStepIPv4Only(r, cfg) ==
    IF cfg.iface = EmptyString THEN r
    ELSE IF Len(cfg.ipv4 \o cfg.ipv6) = 0 THEN r
    ELSE applySRSet(Spawn(r, ResolvectlDNS(cfg.iface, cfg.ipv4)), cfg)

\* the body of applySystemdResolved's loop
applySRStep(r, cfg) ==
    IF cfg.iface = EmptyString THEN r
    ELSE IF Len(cfg.ipv4 \o cfg.ipv6) = 0 THEN r
    ELSE applySRSet(Spawn(r, ResolvectlDNS(cfg.iface, cfg.ipv4 \o cfg.ipv6)), cfg)

\* ConfigWriter.applySystemdResolved
RECURSIVE applySRFrom(_, _, _)
applySRFrom(r, configs, i) ==
    IF i > Len(configs) \/ Stopped(r) THEN r
    ELSE applySRFrom(ReturnedAt(applySRStep(r, configs[i]), i), configs, i + 1)

applySystemdResolved(r, configs) == applySRFrom(r, configs, 1)

\* an Apply that treats every backend other than systemd-resolved as NetworkManager
ApplyDefaultNetworkManager(r, backend, configs) ==
    IF backend = BackendSystemdResolved THEN applySystemdResolved(r, configs)
    ELSE applyNetworkManager(r, configs)

\* ConfigWriter.Apply
Apply(r, backend, configs) ==
    IF backend = BackendNetworkManager THEN applyNetworkManager(r, configs)
    ELSE IF backend = BackendSystemdResolved THEN applySystemdResolved(r, configs)
    ELSE Fail(r, "unsupported backend for writing", EmptyString)

\* resetNetworkManager, one interface: after the reapply
resetNMReapplied(r4, iface) ==
    IF ~r4.ok THEN Fail(r4, "failed to reapply configuration", iface) ELSE r4

\* resetNetworkManager, one interface: after the IPv6 reset
resetNMReapply(r3, iface) ==
    IF ~r3.ok THEN Fail(r3, "failed to reset IPv6 DNS", iface)
    ELSE resetNMReapplied(Spawn(r3, NmcliReapply(iface)), iface)

\* an IPv6 reset that is issued whether or not the IPv4 reset succeeded
resetNMIPv6Regardless(r2, connName, iface) ==
    resetNMReapply(Spawn(r2, NmcliModify(connName, "ipv6.dns", EmptyString, "no")), iface)

\* resetNetworkManager, one interface: after the IPv4 reset
resetNMIPv6(r2, connName, iface) ==
    IF ~r2.ok THEN Fail(r2, "failed to reset IPv4 DNS", iface)
    ELSE resetNMReapply(Spawn(r2, NmcliModify(connName, "ipv6.dns", EmptyString, "no")), iface)

\* resetNetworkManager, one interface: after the connection lookup
resetNMIPv4(r1, iface) ==
    IF ~r1.ok THEN Fail(r1, "failed to get connection", iface)
    ELSE resetNMIPv6(Spawn(r1, NmcliModify(r1.out, "ipv4.dns", EmptyString, "no")), r1.out, iface)

\* the body of resetNetworkManager's loop
resetNMStep(r, iface) == resetNMIPv4(getNMConnection(r, iface), iface)

\* ConfigWriter.resetNetworkManager
RECURSIVE resetNMFrom(_, _, _)
resetNMFrom(r, interfaces, i) ==
    IF i > Len(interfaces) \/ Stopped(r) THEN r
    ELSE resetNMFrom(ReturnedAt(resetNMStep(r, interfaces[i]), i), interfaces, i + 1)

resetNetworkManager(r, interfaces) == resetNMFrom(r, interfaces, 1)

\* the body of resetSystemdResolved's loop: after the revert
resetSRReverted(r1, iface) ==
    IF ~r1.ok THEN Fail(r1, "failed to revert DNS", iface) ELSE r1

resetSRStep(r, iface) == resetSRReverted(Spawn(r, ResolvectlRevert(iface)), iface)

\* ConfigWriter.resetSystemdResolved
RECURSIVE resetSRFrom(_, _, _)
resetSRFrom(r, interfaces, i) ==
    IF i > Len(interfaces) \/ Stopped(r) THEN r
    ELSE resetSRFrom(ReturnedAt(resetSRStep(r, interfaces[i]), i), interfaces, i + 1)

resetSystemdResolved(r, interfaces) == resetSRFrom(r, interfaces, 1)

\* ConfigWriter.ResetToAutomatic
ResetToAutomatic(r, backend, interfaces) ==
    IF backend = BackendNetworkManager THEN resetNetworkManager(r, interfaces)
    ELSE IF backend = BackendSystemdResolved THEN resetSystemdResolved(r, interfaces)
    ELSE Fail(r, "unsupported backend for reset", EmptyString)

\* ---------------------------------------------------------------------------
\* ConfigReader (reader.go) and the status commands it parses
\* ---------------------------------------------------------------------------
\* nmcli -t -f NAME,DEVICE connection show --active: one NAME:DEVICE line per active
\* connection, in device order, and a connection that has no device yet
RECURSIVE NmActiveLines(_)
NmActiveLines(i) ==
    IF i > Len(Devices) THEN << <<"vpn", ":">> >>
    ELSE IF ConnOf(Devices[i]) = EmptyString THEN NmActiveLines(i + 1)
    ELSE <<ConnOf(Devices[i]) \o <<":">> \o Devices[i]>> \o NmActiveLines(i + 1)

\* one FIELD[n]:value line per server
RECURSIVE NmFieldLines(_, _, _)
NmFieldLines(field, servers, i) ==
    IF i > Len(servers) THEN <<>>
    ELSE <<(<<field, "[n]", ":">> \o servers[i])>> \o NmFieldLines(field, servers, i + 1)

\* nmcli -t -f IP4.DNS,IP6.DNS connection show NAME
NmShowDNS(nmS, connName) ==
    LET devs == {d \in DeviceSet : ConnOf(d) # <<>> /\ ConnOf(d) = connName}
    IN  IF devs = {} THEN [ok |-> FALSE, lines |-> <<>>]
        ELSE LET d == CHOOSE x \in devs : TRUE
             IN  [ok |-> TRUE,
                  lines |-> NmFieldLines("IP4.DNS", nmS[d].run4, 1)
                            \o NmFieldLines("IP6.DNS", nmS[d].run6, 1)]

\* status.InterfaceStatus
InterfaceStatus(name, v4, v6) == [name |-> name, ipv4 |-> v4, ipv6 |-> v6]

\* status.StatusInfo, with the error ReadDNSConfig returns beside it
StatusInfo(backend, ifaces, managed, warnings) ==
    [backend |-> backend, interfaces |-> ifaces, managed |-> managed, warnings |-> warnings,
     err |-> Nil, cmds |-> <<>>]

\* the nil *StatusInfo returned with an error
ReadFailed(e) ==
    [backend |-> NoBackend, interfaces |-> <<>>, managed |-> FALSE, warnings |-> <<>>, err |-> e,
     cmds |-> <<>>]

\* a read result with the external commands the read has spawned so far
Issued(info, cmds) == [info EXCEPT !.cmds = cmds]

\* the scan loop of getDNSForConnection
RECURSIVE scanDNSLines(_, _, _, _)
scanDNSLines(lines, i, v4, v6) ==
    IF i > Len(lines) THEN [ipv4 |-> v4, ipv6 |-> v6]
    ELSE LET line == lines[i]
             parts == SplitN2(line, ":")
             hit == Len(parts) = 2 /\ parts[2] # EmptyString
         IN  IF HasPrefix(line, <<"IP4.DNS">>)
             THEN scanDNSLines(lines, i + 1,
                               IF hit THEN Append(v4, TrimSpace(parts[2])) ELSE v4, v6)
             ELSE IF HasPrefix(line, <<"IP6.DNS">>)
             THEN scanDNSLines(lines, i + 1, v4,
                               IF hit THEN Append(v6, TrimSpace(parts[2])) ELSE v6)
             ELSE scanDNSLines(lines, i + 1, v4, v6)

\* ConfigReader.getDNSForConnection; bad is the set of connections whose query fails
getDNSForConnection(nmS, connName, bad) ==
    LET o == NmShowDNS(nmS, connName)
    IN  IF connName \in bad \/ ~o.ok
        THEN [ipv4 |-> <<>>, ipv6 |-> <<>>, err |-> "nmcli failed"]
        ELSE scanDNSLines(o.lines, 1, <<>>, <<>>) @@ [err |-> Nil]

\* the warning readNetworkManager records for a device
Warning(device) == <<"failed to get DNS for">> \o device

\* the scan loop of readNetworkManager over the active-connection lines
RECURSIVE scanActive(_, _, _, _, _)
scanActive(nmS, bad, lines, i, info) ==
    IF i > Len(lines) THEN info
    ELSE LET parts == Split(lines[i], ":")
             device == parts[2]
             dns == getDNSForConnection(nmS, parts[1], bad)
             queried == Issued(info, Append(info.cmds, NmcliShowDNS(parts[1])))
         IN  IF Len(parts) < 2 THEN scanActive(nmS, bad, lines, i + 1, info)
             ELSE IF device = EmptyString THEN scanActive(nmS, bad, lines, i + 1, info)
             ELSE IF dns.err # Nil
             THEN scanActive(nmS, bad, lines, i + 1,
                             [queried EXCEPT !.warnings = Append(@, Warning(device))])
             ELSE IF Len(dns.ipv4) > 0 \/ Len(dns.ipv6) > 0
             THEN scanActive(nmS, bad, lines, i + 1,
                             [queried EXCEPT !.interfaces =
                                 Append(@, InterfaceStatus(device, dns.ipv4, dns.ipv6))])
             ELSE scanActive(nmS, bad, lines, i + 1, queried)

\* readNetworkManager in which a failed per-connection query aborts the read
readNetworkManagerAbortOnFailure(h, nmS, listFails, bad) ==
    IF h # BackendNetworkManager \/ listFails
    THEN ReadFailed("failed to get active connections")
    ELSE LET info == scanActive(nmS, bad, NmActiveLines(1), 1,
                                StatusInfo(BackendNetworkManager, <<>>, TRUE, <<>>))
         IN  IF info.warnings # <<>> THEN ReadFailed("failed to get DNS") ELSE info

\* ConfigReader.readNetworkManager; listFails: the connection listing itself fails
readNetworkManager(h, nmS, listFails, bad) ==
    IF h # BackendNetworkManager \/ listFails
    THEN Issued(ReadFailed("failed to get active connections"), <<NmcliShowActive>>)
    ELSE scanActive(nmS, bad, NmActiveLines(1), 1,
                    Issued(StatusInfo(BackendNetworkManager, <<>>, TRUE, <<>>), <<NmcliShowActive>>))

\* resolvectl status: a global section, then per link a header and its servers, the
\* first on a "DNS Servers:" line and the others on "- " lines
RECURSIVE SrBulletLines(_, _)
SrBulletLines(servers, i) ==
    IF i > Len(servers) THEN <<>>
    ELSE <<(<<" ", " ", "-", " ">> \o servers[i])>> \o SrBulletLines(servers, i + 1)

SrLinkLines(srS, n) ==
    LET dev == Devices[n]
        servers == srS[dev]
    IN  << <<"Link", " ", "n", " ", "(">> \o dev \o <<")">>,
           <<" ", " ", "Current Scopes", ":", " ", "DNS">> >>
        \o (IF servers = <<>> THEN <<>>
            ELSE <<(<<" ", " ", "DNS Servers", ":", " ">> \o servers[1])>>
                 \o SrBulletLines(servers, 2))

RECURSIVE SrStatusFrom(_, _)
SrStatusFrom(srS, n) ==
    IF n > Len(Devices) THEN <<>>
    ELSE SrLinkLines(srS, n) \o <<EmptyString>> \o SrStatusFrom(srS, n + 1)

SrStatusLines(srS) ==
    << <<"Global">>, <<" ", " ", "Protocols", ":", " ", "-", "LLMNR">>, EmptyString >>
    \o SrStatusFrom(srS, 1)

\* strings.Trim(s, "()")
RECURSIVE TrimParens(_)
TrimParens(s) ==
    IF s # <<>> /\ Head(s) \in {"(", ")"} THEN TrimParens(Tail(s))
    ELSE IF s # <<>> /\ s[Len(s)] \in {"(", ")"} THEN TrimParens(SubSeq(s, 1, Len(s) - 1))
    ELSE s

\* the append of an address to the current interface, by family
AddAddr(cur, addr) ==
    IF Contains(addr, ":")
    THEN [cur EXCEPT !.ipv6 = Append(@, addr)]
    ELSE [cur EXCEPT !.ipv4 = Append(@, addr)]

\* a parser that keeps every interface section
HasServersOrNot(cur) == TRUE

HasServers(cur) == Len(cur.ipv4) > 0 \/ Len(cur.ipv6) > 0

\* the nil *status.InterfaceStatus
NoInterface == [name |-> EmptyString, ipv4 |-> <<>>, ipv6 |-> <<>>, isNil |-> TRUE]

NewInterface(name) == [name |-> name, ipv4 |-> <<>>, ipv6 |-> <<>>, isNil |-> FALSE]

Deref(cur) == InterfaceStatus(cur.name, cur.ipv4, cur.ipv6)

\* ConfigReader.parseSystemdResolvedOutput, from line i on
RECURSIVE parseSRFrom(_, _, _, _)
parseSRFrom(lines, i, interfaces, cur) ==
    IF i > Len(lines)
    THEN IF ~cur.isNil /\ HasServers(cur) THEN Append(interfaces, Deref(cur)) ELSE interfaces
    ELSE LET line == TrimSpace(lines[i])
             parts == Fields(line)
             colon == SplitN2(line, ":")
             bullet == TrimSpace(SubSeq(line, 3, Len(line)))
         IN  IF HasPrefix(line, <<"Link", " ">>)
             THEN parseSRFrom(lines, i + 1,
                      IF ~cur.isNil /\ HasServers(cur) THEN Append(interfaces, Deref(cur))
                      ELSE interfaces,
                      IF Len(parts) >= 3 THEN NewInterface(TrimParens(parts[3])) ELSE cur)
             ELSE IF ~cur.isNil /\ HasPrefix(line, <<"Current DNS Server", ":">>)
             THEN parseSRFrom(lines, i + 1, interfaces,
                      IF Len(colon) = 2 THEN AddAddr(cur, TrimSpace(colon[2])) ELSE cur)
             ELSE IF ~cur.isNil /\ HasPrefix(line, <<"DNS Servers", ":">>)
             THEN parseSRFrom(lines, i + 1, interfaces,
                      IF Len(colon) = 2 THEN AddAddr(cur, TrimSpace(colon[2])) ELSE cur)
             ELSE IF ~cur.isNil /\ HasPrefix(line, <<"-", " ">>)
             THEN parseSRFrom(lines, i + 1, interfaces,
                      IF bullet # EmptyString THEN AddAddr(cur, bullet) ELSE cur)
             ELSE parseSRFrom(lines, i + 1, interfaces, cur)

parseSystemdResolvedOutput(lines) == parseSRFrom(lines, 1, <<>>, NoInterface)

\* ConfigReader.readSystemdResolved; statusFails: the status command fails
readSystemdResolved(p, h, srS, statusFails) ==
    IF ~p.resolvectl /\ ~p.systemdResolve
    THEN ReadFailed("neither resolvectl nor systemd-resolve found")
    ELSE IF h # BackendSystemdResolved \/ statusFails
    THEN Issued(ReadFailed("failed to get systemd-resolved status"),
                <<ResolveStatus(IF p.resolvectl THEN "resolvectl" ELSE "systemd-resolve")>>)
    ELSE Issued(StatusInfo(BackendSystemdResolved,
                           parseSystemdResolvedOutput(SrStatusLines(srS)), TRUE, <<>>),
                <<ResolveStatus(IF p.resolvectl THEN "resolvectl" ELSE "systemd-resolve")>>)

\* the scan loop of readResolvConf
RECURSIVE scanResolvConf(_, _, _, _)
scanResolvConf(lines, i, v4, v6) ==
    IF i > Len(lines) THEN [ipv4 |-> v4, ipv6 |-> v6]
    ELSE LET line == TrimSpace(lines[i])
             fields == Fields(line)
             addr == fields[2]
         IN  IF HasPrefix(line, <<"#">>) \/ line = EmptyString
             THEN scanResolvConf(lines, i + 1, v4, v6)
             ELSE IF HasPrefix(line, <<"nameserver">>) /\ Len(fields) >= 2
             THEN IF Contains(addr, ":")
                  THEN scanResolvConf(lines, i + 1, v4, Append(v6, addr))
                  ELSE scanResolvConf(lines, i + 1, Append(v4, addr), v6)
             ELSE scanResolvConf(lines, i + 1, v4, v6)

\* ConfigReader.readResolvConf; file: whether /etc/resolv.conf opens, and its lines
readResolvConf(file) ==
    IF ~file.opens THEN ReadFailed("failed to open /etc/resolv.conf")
    ELSE LET got == scanResolvConf(file.lines, 1, <<>>, <<>>)
         IN  StatusInfo(BackendResolvConf,
                        IF Len(got.ipv4) > 0 \/ Len(got.ipv6) > 0
                        THEN <<InterfaceStatus(<<"system">>, got.ipv4, got.ipv6)>>
                        ELSE <<>>,
                        FALSE, <<>>)

\* the system a call runs against: the probe results, the backend whose tools work,
\* the tools' state and /etc/resolv.conf
System(p, h, nmS, srS, file) == [probe |-> p, host |-> h, nm |-> nmS, sr |-> srS, file |-> file]

\* ConfigReader.ReadDNSConfig; fails: the backend's listing or status command fails,
\* bad: the connections whose DNS query fails
ReadDNSConfig(sys, backend, fails, bad) ==
    IF backend = BackendNetworkManager
    THEN readNetworkManager(sys.host, sys.nm, fails, bad)
    ELSE IF backend = BackendSystemdResolved
    THEN readSystemdResolved(sys.probe, sys.host, sys.sr, fails)
    ELSE IF backend = BackendResolvConf
    THEN readResolvConf(sys.file)
    ELSE ReadFailed("unsupported backend")

\* ---------------------------------------------------------------------------
\* Detection specification: any probe results, then calls of the detector
\* ---------------------------------------------------------------------------
NoCall == [op |-> "none"]

InitDetect ==
    /\ probe \in SystemOps
    /\ det = NoCall
    /\ host = BackendNetworkManager
    /\ nm = [d \in DeviceSet |-> NmAutomatic(d)]
    /\ sr = [d \in DeviceSet |-> Dhcp4(d) \o Dhcp6(d)]
    /\ last = NoCall

CallDetect ==
    /\ det' = [op |-> "Detect"] @@ Detect(probe)
    /\ UNCHANGED <<probe, host, nm, sr, last>>

CallDetectWithReason ==
    /\ det' = [op |-> "DetectWithReason"] @@ DetectWithReason(probe)
    /\ UNCHANGED <<probe, host, nm, sr, last>>

NextDetect == CallDetect \/ CallDetectWithReason

SpecDetect == InitDetect /\ [][NextDetect]_vars

\* ---------------------------------------------------------------------------
\* The set service (set/service.go, set/validation.go) and the reset service (reset.go)
\* ---------------------------------------------------------------------------
Separators == {":", " ", "(", ")", "-", "#", "."}

ErrEmptyInterfaceName == "interface name cannot be empty"
ErrInvalidInterfaceName == "invalid interface name"
ErrUserCancelled == "operation cancelled by user"
ErrInsufficientPrivileges == "insufficient privileges: root/administrator access required"

\* set.ValidateInterfaceName: a non-empty run of letters, digits, "_" and "-"
ValidateInterfaceName(name) ==
    IF name = EmptyString THEN ErrEmptyInterfaceName
    ELSE IF \E i \in 1..Len(name) : name[i] \in Separators \ {"-"} THEN ErrInvalidInterfaceName
    ELSE Nil

RECURSIVE ValidateInterfaces(_, _)
ValidateInterfaces(names, i) ==
    IF i > Len(names) THEN Nil
    ELSE IF ValidateInterfaceName(names[i]) # Nil THEN ValidateInterfaceName(names[i])
    ELSE ValidateInterfaces(names, i + 1)

\* net.ParseIP(addr) != nil, on the address literals of the model
ParsesAsIP(addr) == addr # EmptyString /\ \A i \in 1..Len(addr) : addr[i] \notin {" ", "(", ")", "-", "#"}

\* net.IP.To4() != nil: dotted IPv4, or an IPv4-mapped IPv6 literal (::ffff:a.b.c.d)
HasTo4(addr) == ~Contains(addr, ":") \/ HasPrefix(addr, <<":", ":", "ffff", ":">>)

\* set.SeparateIPv4AndIPv6
RECURSIVE SeparateFrom(_, _, _, _)
SeparateFrom(addresses, i, v4, v6) ==
    IF i > Len(addresses) THEN [ipv4 |-> v4, ipv6 |-> v6]
    ELSE LET addr == TrimSpace(addresses[i])
         IN  IF addr = EmptyString \/ ~ParsesAsIP(addr) THEN SeparateFrom(addresses, i + 1, v4, v6)
             ELSE IF HasTo4(addr) THEN SeparateFrom(addresses, i + 1, Append(v4, addr), v6)
             ELSE SeparateFrom(addresses, i + 1, v4, Append(v6, addr))

\* a separation that sends every address with a colon to the IPv6 list
SeparateByColon(addresses) ==
    [ipv4 |-> SelectSeq(SeparateFrom(addresses, 1, <<>>, <<>>).ipv4 \o SeparateFrom(addresses, 1, <<>>, <<>>).ipv6,
                        LAMBDA a : ~Contains(a, ":")),
     ipv6 |-> SelectSeq(SeparateFrom(addresses, 1, <<>>, <<>>).ipv4 \o SeparateFrom(addresses, 1, <<>>, <<>>).ipv6,
                        LAMBDA a : Contains(a, ":"))]

SeparateIPv4AndIPv6(addresses) == SeparateFrom(addresses, 1, <<>>, <<>>)

\* nmcli -t -f DEVICE,STATE device status
RECURSIVE NmDeviceStatusLines(_)
NmDeviceStatusLines(i) ==
    IF i > Len(Devices) THEN << <<"lo", ":", "unmanaged">> >>
    ELSE <<(Devices[i] \o <<":", IF ConnOf(Devices[i]) = EmptyString THEN "disconnected" ELSE "connected">>)>>
         \o NmDeviceStatusLines(i + 1)

RECURSIVE scanConnected(_, _)
scanConnected(lines, i) ==
    IF i > Len(lines) THEN <<>>
    ELSE LET parts == Split(lines[i], ":")
         IN  (IF Len(parts) >= 2 /\ parts[2] = <<"connected">> THEN <<parts[1]>> ELSE <<>>)
             \o scanConnected(lines, i + 1)

\* Service.detectInterfaces; statusFails: the device listing fails
detectInterfaces(h, statusFails) ==
    IF h # BackendNetworkManager \/ statusFails THEN <<>>
    ELSE scanConnected(NmDeviceStatusLines(1), 1)

\* set.SetOptions
SetOptions(interfaces, dryRun, yes) == [Interfaces |-> interfaces, DryRun |-> dryRun, Yes |-> yes]

\* what setDNS returns and did; applied: ConfigWriter.Apply was called
SetResult(e, b, configs, r, applied) ==
    [err |-> e, backend |-> b, configs |-> configs, run |-> r, applied |-> applied]

\* a setDNS that applies in dry-run mode too
setDNSAppliedAnyway(backend, appliedConfigs, r0, r1, opts, tty, answer) ==
    IF ~opts.DryRun /\ ~opts.Yes /\ tty /\ answer \notin {"y", "yes"}
    THEN SetResult(ErrUserCancelled, backend, appliedConfigs, r0, FALSE)
    ELSE IF r1.err # NoErr THEN SetResult("failed to apply DNS", backend, appliedConfigs, r1, TRUE)
    ELSE SetResult(Nil, backend, appliedConfigs, r1, TRUE)

\* a setDNS that applies without looking at the answer to the prompt
setDNSAppliedUnasked(backend, appliedConfigs, r0, r1, opts, tty, answer) ==
    IF opts.DryRun THEN SetResult(Nil, backend, appliedConfigs, r0, FALSE)
    ELSE IF r1.err # NoErr THEN SetResult("failed to apply DNS", backend, appliedConfigs, r1, TRUE)
    ELSE SetResult(Nil, backend, appliedConfigs, r1, TRUE)

\* setDNS from the dry-run check on: confirmation (answer "eof": the answer cannot be
\* read), then ConfigWriter.Apply
setDNSApplied(backend, appliedConfigs, r0, r1, opts, tty, answer) ==
    IF opts.DryRun THEN SetResult(Nil, backend, appliedConfigs, r0, FALSE)
    ELSE IF ~opts.Yes /\ tty /\ answer = "eof"
    THEN SetResult("failed to read confirmation", backend, appliedConfigs, r0, FALSE)
    ELSE IF ~opts.Yes /\ tty /\ answer \notin {"y", "yes"}
    THEN SetResult(ErrUserCancelled, backend, appliedConfigs, r0, FALSE)
    ELSE IF r1.err # NoErr THEN SetResult("failed to apply DNS", backend, appliedConfigs, r1, TRUE)
    ELSE SetResult(Nil, backend, appliedConfigs, r1, TRUE)

\* setDNS once the target interfaces and the two address lists are known
setDNSConfigs(backend, appliedConfigs, r0, opts, tty, answer) ==
    setDNSApplied(backend, appliedConfigs, r0, Apply(r0, backend, appliedConfigs),
                  opts, tty, answer)

\* setDNS: the same DNS servers for every target interface
setDNSTargets(backend, targetInterfaces, sep, r0, opts, tty, answer) ==
    setDNSConfigs(backend,
                  [i \in 1..Len(targetInterfaces) |->
                      DNSConfig(targetInterfaces[i], sep.ipv4, sep.ipv6)],
                  r0, opts, tty, answer)

\* setDNS: the interfaces given, else those detected, else eth0
targetInterfacesOf(given, detected) ==
    IF Len(given) > 0 THEN given
    ELSE IF Len(detected) > 0 THEN detected
    ELSE <<Eth0>>

\* setDNS after validation and detection
setDNSDetected(sys, invalid, d, dnsAddresses, opts, tty, answer, statusFails, r0) ==
    IF invalid # Nil THEN SetResult(invalid, NoBackend, <<>>, r0, FALSE)
    ELSE IF d.err # Nil THEN SetResult("failed to detect DNS backend", NoBackend, <<>>, r0, FALSE)
    ELSE setDNSTargets(d.backend,
                       targetInterfacesOf(opts.Interfaces, detectInterfaces(sys.host, statusFails)),
                       SeparateIPv4AndIPv6(dnsAddresses), r0, opts, tty, answer)

\* Service.setDNS. tty: stdout is a terminal; answer: the reply to the confirmation
\* prompt; statusFails: the device listing fails; failAt: the command of Apply that fails
setDNS(sys, dnsAddresses, opts, tty, answer, statusFails, failAt) ==
    setDNSDetected(sys, ValidateInterfaces(opts.Interfaces, 1), Detect(sys.probe), dnsAddresses,
                   opts, tty, answer, statusFails, Run(sys.host, sys.nm, sys.sr, failAt))

\* who runs the command: root, a user for whom sudo works, a user without sudo
Privileges == {"root", "sudo", "none"}

\* cmdutil.EnsurePrivileges: nothing to do for root; else the command is run again under
\* sudo (escalated), or fails when sudo is not installed
EnsurePrivileges(priv) ==
    IF priv = "root" THEN [err |-> Nil, escalated |-> FALSE]
    ELSE IF priv = "none" THEN [err |-> ErrInsufficientPrivileges, escalated |-> FALSE]
    ELSE [err |-> Nil, escalated |-> TRUE]

\* RunE of NewSetCommand once the privileges are settled
setRun(ensured, sys, dnsAddresses, opts, tty, answer, statusFails, failAt) ==
    IF ensured.err # Nil
    THEN [escalated |-> FALSE]
         @@ SetResult(ensured.err, NoBackend, <<>>, Run(sys.host, sys.nm, sys.sr, failAt), FALSE)
    ELSE [escalated |-> ensured.escalated]
         @@ setDNS(sys, dnsAddresses, opts, tty, answer, statusFails, failAt)

\* RunE of NewSetCommand with a preset or addresses: privileges first unless --dry-run,
\* then the service; under sudo the same command runs again as root
NewSetCommand(sys, priv, dnsAddresses, opts, tty, answer, statusFails, failAt) ==
    setRun(IF opts.DryRun THEN [err |-> Nil, escalated |-> FALSE] ELSE EnsurePrivileges(priv),
           sys, dnsAddresses, opts, tty, answer, statusFails, failAt)

\* the name of the first interface of a StatusInfo only
InterfaceNamesFirst(status) ==
    IF status.interfaces = <<>> THEN <<>> ELSE <<status.interfaces[1].name>>

\* the names of the interfaces of a StatusInfo, in order
InterfaceNames(status) == [i \in 1..Len(status.interfaces) |-> status.interfaces[i].name]

\* a call Reset makes on its detector, reader or writer
CallOf(fn, backend, names) == [fn |-> fn, backend |-> backend, names |-> names]

ResetResult(e, b, status, names, r, calls) ==
    [err |-> e, backend |-> b, status |-> status, names |-> names, run |-> r, calls |-> calls]

\* the calls of a Reset that got as far as the read
ReadCalls(backend) ==
    <<CallOf("Detect", NoBackend, <<>>), CallOf("ReadDNSConfig", backend, <<>>)>>

\* Reset after ConfigWriter.ResetToAutomatic
resetDone(backend, statusInfo, interfaces, r1) ==
    ResetResult(IF r1.err # NoErr THEN "failed to reset configuration" ELSE Nil,
                backend, statusInfo, interfaces, r1,
                Append(ReadCalls(backend), CallOf("ResetToAutomatic", backend, interfaces)))

\* Reset once the interface names are extracted
resetNames(backend, statusInfo, interfaces, r0) ==
    IF Len(interfaces) = 0
    THEN ResetResult(Nil, backend, statusInfo, interfaces, r0, ReadCalls(backend))
    ELSE resetDone(backend, statusInfo, interfaces, ResetToAutomatic(r0, backend, interfaces))

\* Reset after ReadDNSConfig
resetRead(backend, statusInfo, r0) ==
    IF statusInfo.err # Nil
    THEN ResetResult("failed to read current configuration", backend, statusInfo, <<>>, r0,
                     ReadCalls(backend))
    ELSE resetNames(backend, statusInfo, InterfaceNames(statusInfo), r0)

\* Reset after detection
resetDetected(sys, d, fails, bad, r0) ==
    IF d.err # Nil
    THEN ResetResult("failed to detect DNS backend", NoBackend, ReadFailed(Nil), <<>>, r0,
                     <<CallOf("Detect", NoBackend, <<>>)>>)
    ELSE resetRead(d.backend, ReadDNSConfig(sys, d.backend, fails, bad), r0)

\* reset.Service.Reset. fails, bad: the failures of the read; failAt: the command of
\* ResetToAutomatic that fails
Reset(sys, fails, bad, failAt) ==
    resetDetected(sys, Detect(sys.probe), fails, bad, Run(sys.host, sys.nm, sys.sr, failAt))

\* ---------------------------------------------------------------------------
\* The specification: a host with one working backend, in any prior DNS state, on
\* which the reader, the writer and the set and reset commands are called
\* ---------------------------------------------------------------------------
\* /etc/resolv.conf on these hosts
ResolvConfFile ==
    [opens |-> TRUE,
     lines |-> << <<"#", " ", "generated">>, <<"nameserver", " ", "127", ".", "53">> >>]

\* the probe results on a host that runs NetworkManager
ProbeNM ==
    [nmService |-> [val |-> TRUE, err |-> FALSE], nmcli |-> TRUE,
     resolvectl |-> FALSE, systemdResolve |-> FALSE,
     srService |-> [val |-> FALSE, err |-> FALSE], fileExists |-> TRUE,
     isSymlink |-> [val |-> FALSE, err |-> FALSE], isRegular |-> [val |-> TRUE, err |-> FALSE]]

\* the probe results on a host that runs systemd-resolved without NetworkManager
ProbeSR ==
    [nmService |-> [val |-> FALSE, err |-> FALSE], nmcli |-> FALSE,
     resolvectl |-> TRUE, systemdResolve |-> FALSE,
     srService |-> [val |-> TRUE, err |-> FALSE], fileExists |-> TRUE,
     isSymlink |-> [val |-> TRUE, err |-> FALSE], isRegular |-> [val |-> TRUE, err |-> FALSE]]

\* the probe results on a host that runs neither, with a plain /etc/resolv.conf
ProbeStatic ==
    [nmService |-> [val |-> FALSE, err |-> FALSE], nmcli |-> FALSE,
     resolvectl |-> FALSE, systemdResolve |-> FALSE,
     srService |-> [val |-> FALSE, err |-> FALSE], fileExists |-> TRUE,
     isSymlink |-> [val |-> FALSE, err |-> FALSE], isRegular |-> [val |-> TRUE, err |-> FALSE]]

\* the probe results on a host that runs neither and whose /etc/resolv.conf is a symlink
ProbeManaged ==
    [ProbeStatic EXCEPT !.isSymlink = [val |-> TRUE, err |-> FALSE]]

\* the longest /etc/resolv.conf a read is given, in lines
MaxLines == 2

\* lines of /etc/resolv.conf: comments, blank lines, nameserver directives for both
\* families (plain, indented, with a trailing word, without an address), other options
ResolvConfLines ==
    { <<"#", " ", "nameserver", " ", "9", ".", "9">>,
      EmptyString,
      <<" ">>,
      <<"nameserver", " ", "1", ".", "1">>,
      <<" ", "nameserver", " ", " ", "2620", ":", ":", "9", " ", "#", "v6">>,
      <<"nameserver">>,
      <<"search", " ", "lan">>,
      <<"options", " ", "nameserver">>,
      <<"nameserver", "s", " ", "8", ".", "8">> }

\* the files a read of the resolv.conf backend can find, and one that cannot be opened
ResolvConfFiles ==
    {[opens |-> FALSE, lines |-> <<>>]}
    \cup {[opens |-> TRUE, lines |-> l] : l \in UNION {[1..n -> ResolvConfLines] : n \in 0..MaxLines}}

\* a resolv.conf without any nameserver
ResolvConfNoServers == [opens |-> TRUE, lines |-> << <<"search", " ", "lan">> >>]

Sys == System(probe, host, nm, sr, ResolvConfFile)

\* what a read of the host's backend reports when no command fails
Observe(h, nmS, srS) ==
    ReadDNSConfig(System(probe, h, nmS, srS, ResolvConfFile), h, FALSE, {}).interfaces

\* the servers a read reports for an interface; none when the interface is omitted
ServersOf(interfaces, name) ==
    IF \E i \in 1..Len(interfaces) : interfaces[i].name = name
    THEN LET i == CHOOSE j \in 1..Len(interfaces) : interfaces[j].name = name
         IN  [ipv4 |-> interfaces[i].ipv4, ipv6 |-> interfaces[i].ipv6]
    ELSE [ipv4 |-> <<>>, ipv6 |-> <<>>]

\* the device a writer command addresses
CmdDevice(c) ==
    IF c.verb = "connection modify"
    THEN IF \E d \in DeviceSet : ConnOf(d) = c.target
         THEN CHOOSE d \in DeviceSet : ConnOf(d) = c.target
         ELSE c.target
    ELSE c.target

\* backend values other than the three the reader knows
OtherBackends == {BackendNetplan, NoBackend, "dnsmasq"}

\* the backends whose tools work on some host of the model
WritableBackends == {BackendNetworkManager, BackendSystemdResolved}

Names == {Eth0, Wlan0, Tun0, EmptyString}

\* the sequences of interface names a caller passes
NameSeqs == UNION {[1..n -> Names] : n \in 0..MaxCfgs}

\* the commands one element of a write can spawn
CmdsPer(h) == IF h = BackendNetworkManager THEN 4 ELSE 1

\* servers set by hand before the program runs
Manual4 == <<Pool4[3]>>
Manual6 == <<Pool6[2]>>

NmPriorsOf(dev) == {NmSynced(d4, d6, dev) : d4 \in {<<>>, Manual4}, d6 \in {<<>>, Manual6}}

\* Eth0 in any prior state, Wlan0 automatic or fully manual, Tun0 disconnected
NmPriors ==
    {[d \in DeviceSet |-> IF d = Eth0 THEN e ELSE IF d = Wlan0 THEN w ELSE NmAutomatic(d)] :
        e \in NmPriorsOf(Eth0), w \in {NmAutomatic(Wlan0), NmSynced(Manual4, Manual6, Wlan0)}}

SrDefault == [d \in DeviceSet |-> Dhcp4(d) \o Dhcp6(d)]

SrPriors ==
    {[d \in DeviceSet |-> IF d = Eth0 THEN e ELSE IF d = Wlan0 THEN w ELSE SrDefault[d]] :
        e \in {SrDefault[Eth0], Manual4, Manual6, Manual4 \o Manual6},
        w \in {SrDefault[Wlan0], Manual4 \o Manual6}}

Init ==
    /\ host \in {BackendNetworkManager, BackendSystemdResolved, BackendResolvConf}
    /\ probe \in (IF host = BackendNetworkManager THEN {ProbeNM}
                  ELSE IF host = BackendSystemdResolved THEN {ProbeSR}
                  ELSE {ProbeStatic, ProbeManaged})
    /\ det = NoCall
    /\ nm \in (IF host = BackendNetworkManager THEN NmPriors
               ELSE {[d \in DeviceSet |-> NmAutomatic(d)]})
    /\ sr \in (IF host = BackendSystemdResolved THEN SrPriors ELSE {SrDefault})
    /\ last = NoCall

Idle == last.op = "none" /\ det.op = "none"

\* a caller invokes ConfigWriter.Apply with the same servers for every interface
CallApply ==
    /\ Idle
    /\ \E backend \in ({host} \cap WritableBackends) \cup OtherBackends \cup {BackendResolvConf} :
       \E names \in NameSeqs,
          v4 \in (IF backend = host THEN Lists4 ELSE {SubSeq(Pool4, 1, 1)}),
          v6 \in (IF backend = host THEN Lists6 ELSE {<<>>}) :
       \E failAt \in (IF backend = host THEN 0..(CmdsPer(host) * Len(names)) ELSE {0}) :
       \E configs \in {[i \in 1..Len(names) |-> DNSConfig(names[i], v4, v6)]} :
       \E r \in {Apply(Run(host, nm, sr, failAt), backend, configs)} :
              /\ nm' = r.nm
              /\ sr' = r.sr
              /\ last' = [op |-> "Apply", backend |-> backend, configs |-> configs,
                          failAt |-> failAt, err |-> r.err, at |-> r.at, log |-> r.log,
                          before |-> Observe(host, nm, sr)]
    /\ UNCHANGED <<probe, det, host>>

\* whether every interface of names has an active connection and automatic DNS
AllAutomatic(h, nmS, srS, names) ==
    \A i \in 1..Len(names) :
        /\ names[i] \in DeviceSet
        /\ ConnOf(names[i]) # EmptyString
        /\ IF h = BackendNetworkManager THEN nmS[names[i]] = NmAutomatic(names[i])
           ELSE srS[names[i]] = Dhcp4(names[i]) \o Dhcp6(names[i])

\* a caller invokes ConfigWriter.ResetToAutomatic, or invokes it again with the same
\* interfaces right after a first call
CallResetToAutomatic ==
    /\ \/ Idle
       \/ last.op = "ResetToAutomatic" /\ last.first.op = "none"
    /\ \E backend \in (IF Idle
                       THEN ({host} \cap WritableBackends) \cup OtherBackends \cup {BackendResolvConf}
                       ELSE {last.backend}) :
       \E names \in (IF Idle THEN NameSeqs ELSE {last.names}) :
       \E failAt \in (IF backend = host THEN 0..(CmdsPer(host) * Len(names)) ELSE {0}) :
       \E r \in {ResetToAutomatic(Run(host, nm, sr, failAt), backend, names)} :
              /\ nm' = r.nm
              /\ sr' = r.sr
              /\ last' = [op |-> "ResetToAutomatic", backend |-> backend, names |-> names,
                          failAt |-> failAt, err |-> r.err, at |-> r.at, log |-> r.log,
                          before |-> Observe(host, nm, sr),
                          automatic |-> AllAutomatic(host, nm, sr, names),
                          first |-> IF Idle THEN NoCall
                                    ELSE [op |-> "ResetToAutomatic", failAt |-> last.failAt,
                                          err |-> last.err, before |-> last.before,
                                          automatic |-> last.automatic]]
    /\ UNCHANGED <<probe, det, host>>

\* a caller invokes ConfigReader.ReadDNSConfig, any number of times (the varied
\* resolv.conf contents are read on an idle host); the tools' state afterwards is what
\* the commands the read spawned leave behind
CallReadDNSConfig ==
    /\ \/ last.op = "none"
       \/ last.op = "ReadDNSConfig" /\ last.file = ResolvConfFile
    /\ \E backend \in {host, BackendResolvConf} \cup OtherBackends :
       \E fails \in (IF backend \in WritableBackends THEN BOOLEAN ELSE {FALSE}),
          bad \in (IF backend = BackendNetworkManager
                   THEN SUBSET {ConnOf(Eth0), ConnOf(Wlan0), ConnOf(Br0)} ELSE {{}}),
          f \in (IF backend = BackendResolvConf /\ Idle THEN ResolvConfFiles
                 ELSE {ResolvConfFile}) :
       \E status \in {ReadDNSConfig(System(probe, host, nm, sr, f), backend, fails, bad)} :
       \E after \in {Effect(host, nm, sr, status.cmds)} :
              /\ nm' = after.nm
              /\ sr' = after.sr
              /\ last' = [op |-> "ReadDNSConfig", backend |-> backend, fails |-> fails,
                          bad |-> bad, file |-> f, status |-> status]
    /\ UNCHANGED <<probe, det, host>>

\* a caller invokes the detector on the host, before or between reads
CallDetectOnHost ==
    /\ last.op \in {"none", "ReadDNSConfig"}
    /\ \E op \in {"Detect", "DetectWithReason"} :
          det' = IF op = "Detect" THEN [op |-> op] @@ Detect(probe)
                 ELSE [op |-> op] @@ DetectWithReason(probe)
    /\ UNCHANGED <<probe, host, nm, sr, last>>

\* the interface lists and address lists given to cdns set
SetInterfaces == {<<>>, <<Eth0>>, <<Wlan0, Eth0>>, <<EmptyString>>, << <<"eth", " ", "0">> >>}

\* cdns set with a preset or addresses: RunE of NewSetCommand and Service.setDNS
CmdSet ==
    /\ Idle
    /\ \E ifaces \in SetInterfaces, v4 \in Lists4, v6 \in Lists6, dryRun \in BOOLEAN,
          yes \in BOOLEAN, tty \in BOOLEAN, priv \in Privileges :
       \E answer \in (IF ~yes /\ tty /\ ~dryRun THEN {"y", "n", "eof"} ELSE {""}),
          statusFails \in (IF ifaces = <<>> THEN BOOLEAN ELSE {FALSE}),
          failAt \in (IF dryRun THEN {0} ELSE 0..CmdsPer(host)) :
       \E opts \in {SetOptions(ifaces, dryRun, yes)} :
       \E res \in {NewSetCommand(Sys, priv, v4 \o v6, opts, tty, answer, statusFails, failAt)} :
              /\ v4 \o v6 # <<>>
              /\ nm' = res.run.nm
              /\ sr' = res.run.sr
              /\ last' = [op |-> "set", opts |-> opts, addresses |-> v4 \o v6, tty |-> tty,
                          answer |-> answer, err |-> res.err, backend |-> res.backend,
                          configs |-> res.configs, log |-> res.run.log,
                          priv |-> priv, escalated |-> res.escalated,
                          applied |-> res.applied,
                          before |-> Observe(host, nm, sr)]
    /\ UNCHANGED <<probe, det, host>>

\* cdns reset: Service.Reset, on an idle host or right after a cdns set that applied
CmdReset ==
    /\ \/ Idle
       \/ last.op = "set" /\ last.err = Nil /\ ~last.opts.DryRun
    /\ \E fails \in (IF Idle THEN BOOLEAN ELSE {FALSE}),
          bad \in (IF Idle THEN SUBSET {ConnOf(Eth0), ConnOf(Wlan0)} ELSE {{}}),
          failAt \in (IF Idle THEN 0..(CmdsPer(host) * 2) ELSE {0}),
          f \in (IF host = BackendResolvConf THEN {ResolvConfFile, ResolvConfNoServers}
                 ELSE {ResolvConfFile}) :
       \E res \in {Reset(System(probe, host, nm, sr, f), fails, bad, failAt)} :
              /\ nm' = res.run.nm
              /\ sr' = res.run.sr
              /\ last' = [op |-> "reset", fails |-> fails, bad |-> bad, failAt |-> failAt,
                          err |-> res.err, backend |-> res.backend, status |-> res.status,
                          names |-> res.names, log |-> res.run.log, calls |-> res.calls,
                          file |-> f, before |-> Observe(host, nm, sr),
                          afterSet |-> ~Idle,
                          beforeSet |-> IF Idle THEN <<>> ELSE last.before,
                          setConfigs |-> IF Idle THEN <<>> ELSE last.configs]
    /\ UNCHANGED <<probe, det, host>>

Next ==
    \/ CallApply
    \/ CallResetToAutomatic
    \/ CallReadDNSConfig
    \/ CallDetectOnHost
    \/ CmdSet
    \/ CmdReset

Spec == Init /\ [][Next]_vars

\* ---------------------------------------------------------------------------
\* Detection claims (checked under SpecDetect)
\* ---------------------------------------------------------------------------
Called(op) == det.op = op

\* the calls of SystemOps the last detection made
Queried(call) == \E i \in 1..Len(det.calls) : det.calls[i] = call

\* C1: whenever ServiceRunning("NetworkManager") reports running and nmcli exists,
\* Detect() returns the NetworkManager backend with no error, whatever the
\* systemd-resolved and /etc/resolv.conf probes report.
C1_NetworkManagerWins ==
    (Called("Detect") /\ probe.nmService.val /\ probe.nmcli)
        => (det.backend = BackendNetworkManager /\ det.err = Nil)

\* C1 witness: Detect() ran with NetworkManager running, nmcli present, systemd-resolved
\* running with its tool present and /etc/resolv.conf a symlink.
C1_Witness ==
    /\ Called("Detect") /\ probe.nmService.val /\ probe.nmcli
    /\ probe.resolvectl /\ probe.srService.val /\ ~probe.srService.err
    /\ probe.fileExists /\ probe.isSymlink.val
    /\ det.backend = BackendNetworkManager

\* C2 (as claimed): whenever a ServiceRunning query that detection makes returns an
\* error, for NetworkManager or for systemd-resolved, Detect() returns an error and
\* selects no backend.
C2_ServiceQueryErrorAborts ==
    (Called("Detect") /\
        (probe.nmService.err
            \/ (Queried("ServiceRunning(systemd-resolved)") /\ probe.srService.err)))
        => (det.err # Nil /\ det.backend = NoBackend)

\* C3: when NetworkManager is reported running but nmcli is missing, DetectWithReason()
\* stops with the install-remediation error and the zero backend, having queried
\* nothing beyond the NetworkManager service and nmcli.
C3_MissingNmcliIsFatal ==
    (Called("DetectWithReason") /\ probe.nmService.val /\ ~probe.nmcli)
        => /\ det.err = ErrNmcliMissing
           /\ det.backend = NoBackend
           /\ det.calls = <<"ServiceRunning(NetworkManager)", "CommandExists(nmcli)">>

\* C3 witness: DetectWithReason() ran with NetworkManager running, nmcli missing, and
\* both lower-priority backends available.
C3_Witness ==
    /\ Called("DetectWithReason") /\ probe.nmService.val /\ ~probe.nmcli
    /\ probe.resolvectl /\ probe.srService.val /\ ~probe.srService.err
    /\ probe.fileExists /\ ~probe.isSymlink.val /\ ~probe.isSymlink.err
    /\ probe.isRegular.val /\ ~probe.isRegular.err
    /\ det.err = ErrNmcliMissing

C10_InstalledIsNotDetected ==
    Called("Detect")
        => /\ det.backend = BackendNetworkManager => probe.nmService.val
           /\ det.backend = BackendSystemdResolved => probe.srService.val
           /\ (probe.nmcli /\ ~probe.nmService.val)
                => /\ det.backend # BackendNetworkManager
                   /\ Queried("CommandExists(resolvectl)")
                   /\ Queried("CommandExists(systemd-resolve)")

\* C10 witness: nmcli and resolvectl are installed, neither service runs, and Detect()
\* selected the unmanaged resolv.conf.
C10_Witness ==
    /\ Called("Detect") /\ probe.nmcli /\ ~probe.nmService.val
    /\ probe.resolvectl /\ ~probe.srService.val /\ ~probe.srService.err
    /\ det.backend = BackendResolvConf

\* C11: when detection reaches the resolv.conf step, Detect() returns resolv.conf exactly
\* when the file exists, IsSymlink gives false and IsRegularFile gives true, both without
\* error; an error of IsSymlink or of IsRegularFile that the step meets is returned with
\* no backend; an absent file, or one that is neither symlink nor regular file, gives
\* the error "no supported DNS backend found".
C11_ResolvConfStep ==
    (Called("Detect") /\ Queried("FileExists")) =>
        LET plain == /\ probe.fileExists
                     /\ ~probe.isSymlink.err /\ ~probe.isSymlink.val
                     /\ ~probe.isRegular.err
        IN  /\ det.backend = BackendResolvConf <=> (plain /\ probe.isRegular.val)
            /\ det.backend = BackendResolvConf => det.err = Nil
            /\ (probe.fileExists /\ probe.isSymlink.err)
                  => (det.err = "failed to check if resolv.conf is a symlink"
                      /\ det.backend = NoBackend)
            /\ (probe.fileExists /\ ~probe.isSymlink.err /\ ~probe.isSymlink.val
                    /\ probe.isRegular.err)
                  => (det.err = "failed to check if resolv.conf is a regular file"
                      /\ det.backend = NoBackend)
            /\ (~probe.fileExists \/ (plain /\ ~probe.isRegular.val))
                  => (det.err = "no supported DNS backend found" /\ det.backend = NoBackend)

\* C11 witness: resolvectl is installed but systemd-resolved is not running, the file
\* exists and is neither a symlink nor a regular file, and Detect() failed with the
\* generic error after all three file probes.
C11_Witness ==
    /\ Called("Detect") /\ ~probe.nmService.val
    /\ probe.resolvectl /\ ~probe.srService.val /\ ~probe.srService.err
    /\ probe.fileExists /\ ~probe.isSymlink.val /\ ~probe.isSymlink.err
    /\ ~probe.isRegular.val /\ ~probe.isRegular.err
    /\ Queried("IsRegularFile")
    /\ det.err = ErrNoBackend /\ det.backend = NoBackend

\* C12: DetectWithReason() returns the exact reason literal of each outcome:
\* NetworkManager selected; systemd-resolved selected with resolvectl present;
\* systemd-resolved selected with systemd-resolve alone; resolv.conf selected; nothing
\* matched.
C12_ReasonLiterals ==
    Called("DetectWithReason") =>
        /\ det.backend = BackendNetworkManager
              => det.reason = "nmcli command available and NetworkManager service is running"
        /\ (det.backend = BackendSystemdResolved /\ probe.resolvectl)
              => det.reason = "resolvectl command available and systemd-resolved service is running"
        /\ (det.backend = BackendSystemdResolved /\ ~probe.resolvectl)
              => (/\ probe.systemdResolve
                  /\ det.reason
                        = "systemd-resolve command available and systemd-resolved service is running")
        /\ det.backend = BackendResolvConf
              => det.reason
                    = "/etc/resolv.conf exists and is a regular file (not managed by a service)"
        /\ det.err = "no supported DNS backend found"
              => det.reason = "no supported DNS backend found"

\* C12 witness: systemd-resolved was selected on a host that has systemd-resolve and not
\* resolvectl.
C12_Witness ==
    /\ Called("DetectWithReason") /\ det.backend = BackendSystemdResolved
    /\ ~probe.resolvectl /\ probe.systemdResolve
    /\ det.reason = "systemd-resolve command available and systemd-resolved service is running"

\* C13 (as claimed): every return of DetectWithReason() carries a non-empty reason; with
\* an error the backend is the zero value, and without one the backend is non-empty.
C13_ReasonNeverEmpty ==
    Called("DetectWithReason") =>
        /\ det.reason # ""
        /\ det.err # Nil => det.backend = NoBackend
        /\ det.err = Nil => det.backend # NoBackend

C6_FailFastNoRollback ==
    (/\ last.op \in {"Apply", "ResetToAutomatic"} /\ last.err # NoErr
     /\ last.backend \in WritableBackends) =>
        LET names == IF last.op = "Apply"
                     THEN [i \in 1..Len(last.configs) |-> last.configs[i].iface]
                     ELSE last.names
            k == last.at
            obs == Observe(host, nm, sr)
        IN  /\ k \in 1..Len(names)
            /\ last.err.iface = names[k]
            /\ last.failAt \in 1..Len(last.log) => Len(last.log) = last.failAt
            /\ \A n \in 1..Len(last.log) : \E j \in 1..k : CmdDevice(last.log[n]) = names[j]
            /\ \A j \in (k + 1)..Len(names) :
                  (\A m \in 1..k : names[m] # names[j]) =>
                      ServersOf(obs, names[j]) = ServersOf(last.before, names[j])
            /\ \A j \in 1..(k - 1) :
                  (names[j] # names[k] /\ names[j] # EmptyString) =>
                      IF last.op = "ResetToAutomatic"
                      THEN ServersOf(obs, names[j])
                              = [ipv4 |-> Dhcp4(names[j]), ipv6 |-> Dhcp6(names[j])]
                      ELSE IF last.backend = BackendNetworkManager
                      THEN /\ Len(last.configs[j].ipv4) > 0 =>
                                 ServersOf(obs, names[j]).ipv4 = last.configs[j].ipv4
                           /\ Len(last.configs[j].ipv6) > 0 =>
                                 ServersOf(obs, names[j]).ipv6 = last.configs[j].ipv6
                      ELSE Len(last.configs[j].ipv4) + Len(last.configs[j].ipv6) > 0 =>
                              ServersOf(obs, names[j])
                                 = [ipv4 |-> last.configs[j].ipv4, ipv6 |-> last.configs[j].ipv6]

\* C6 witness: Apply for eth0 then wlan0 failed at wlan0's last command; eth0 reads with
\* the new servers, which differ from what it had.
C6_Witness ==
    /\ last.op = "Apply" /\ last.err # NoErr /\ last.at = 2
    /\ last.backend = BackendNetworkManager
    /\ Len(last.configs) = 2
    /\ last.configs[1].iface = Eth0 /\ last.configs[2].iface = Wlan0
    /\ last.configs[1].ipv4 # <<>>
    /\ last.failAt = Len(last.log) /\ Len(last.log) > CmdsPer(host)
    /\ ServersOf(Observe(host, nm, sr), Eth0).ipv4 = last.configs[1].ipv4
    /\ ServersOf(last.before, Eth0).ipv4 # last.configs[1].ipv4

\* C7: when the connection listing succeeds, ReadDNSConfig on NetworkManager returns no
\* error, one warning naming the device for each active connection whose query fails, in
\* listing order, and as interfaces exactly the other active connections that have at
\* least one server, in listing order.
C7_QueryFailureIsAWarning ==
    (last.op = "ReadDNSConfig" /\ last.backend = BackendNetworkManager /\ ~last.fails) =>
        LET active == SelectSeq(Devices, LAMBDA d : ConnOf(d) # EmptyString)
            failed == SelectSeq(active, LAMBDA d : ConnOf(d) \in last.bad)
            good == SelectSeq(active, LAMBDA d : /\ ConnOf(d) \notin last.bad
                                                 /\ nm[d].run4 \o nm[d].run6 # <<>>)
        IN  /\ last.status.err = Nil
            /\ last.status.warnings = [i \in 1..Len(failed) |-> Warning(failed[i])]
            /\ last.status.interfaces =
                  [i \in 1..Len(good) |-> InterfaceStatus(good[i], nm[good[i]].run4, nm[good[i]].run6)]

\* C7 witness: the query for eth0's connection failed; the read returned no error, one
\* warning that names eth0, and wlan0 alone (br0 has no server).
C7_Witness ==
    /\ last.op = "ReadDNSConfig" /\ last.backend = BackendNetworkManager /\ ~last.fails
    /\ last.bad = {ConnOf(Eth0)}
    /\ last.status.err = Nil
    /\ Len(last.status.warnings) = 1
    /\ Contains(last.status.warnings[1], "eth0")
    /\ Len(last.status.interfaces) = 1
    /\ last.status.interfaces[1].name = Wlan0

\* C8: when ResetToAutomatic is called twice in succession for the host's backend, with
\* no command failing, on
\* connected interfaces that were automatic already, neither call returns an error and a
\* read after the second call equals a read after the first and a read before it.
C8_ResetTwiceIsIdempotent ==
    (/\ last.op = "ResetToAutomatic" /\ last.first.op = "ResetToAutomatic"
     /\ last.backend \in WritableBackends
     /\ last.first.automatic /\ last.first.failAt = 0 /\ last.failAt = 0) =>
        /\ last.first.err = NoErr
        /\ last.err = NoErr
        /\ Observe(host, nm, sr) = last.before
        /\ last.before = last.first.before

\* C8 witness: two successive resets of eth0 and wlan0, both automatic beforehand
C8_Witness ==
    /\ last.op = "ResetToAutomatic" /\ last.first.op = "ResetToAutomatic"
    /\ last.backend \in WritableBackends
    /\ last.first.automatic /\ last.first.failAt = 0 /\ last.failAt = 0
    /\ last.names = <<Eth0, Wlan0>>
    /\ last.err = NoErr
    /\ Len(last.log) = 2 * CmdsPer(host)

\* C9 (as stated): after cdns set changed the interfaces from configuration A to B, a
\* successful cdns reset leaves every interface reading as in configuration A.
C9_ResetRestoresPrevious ==
    (last.op = "reset" /\ last.afterSet /\ last.err = Nil) =>
        Observe(host, nm, sr) = last.beforeSet

\* C14: Apply and ResetToAutomatic with a backend other than NetworkManager and
\* systemd-resolved, and ReadDNSConfig with a backend other than those two and
\* resolv.conf, return the "unsupported backend" error, spawn no command, leave every
\* interface reading as before, and the read returns a nil result.
C14_UnsupportedBackendIsAnError ==
    /\ (last.op = "Apply" /\ last.backend \notin WritableBackends) =>
          /\ last.err.kind = "unsupported backend for writing"
          /\ last.log = <<>>
          /\ Observe(host, nm, sr) = last.before
    /\ (last.op = "ResetToAutomatic" /\ last.backend \notin WritableBackends) =>
          /\ last.err.kind = "unsupported backend for reset"
          /\ last.log = <<>>
          /\ Observe(host, nm, sr) = last.before
    /\ (/\ last.op = "ReadDNSConfig"
        /\ last.backend \notin WritableBackends \cup {BackendResolvConf}) =>
          /\ last.status.err = "unsupported backend"
          /\ last.status.cmds = <<>>
          /\ last.status.backend = NoBackend
          /\ last.status.interfaces = <<>>

\* C14 witness: Apply for eth0 and wlan0 with the netplan backend on a host whose
\* NetworkManager works and where eth0 has manual servers; it failed.
C14_Witness ==
    /\ last.op = "Apply" /\ last.backend = BackendNetplan /\ host = BackendNetworkManager
    /\ Len(last.configs) = 2
    /\ last.configs[1].iface = Eth0 /\ last.configs[2].iface = Wlan0
    /\ last.configs[1].ipv4 # <<>>
    /\ nm[Eth0].dns4 = Manual4
    /\ last.err # NoErr

\* C15 (as claimed): ReadDNSConfig on resolv.conf returns exactly the address tokens of
\* the nameserver directives (lines whose first word is "nameserver" and that have an
\* address), in file order, those with a colon as IPv6 and the others as IPv4, on one
\* interface named "system"; all other lines contribute nothing.
C15_ResolvConfDirectivesOnly ==
    (last.op = "ReadDNSConfig" /\ last.backend = BackendResolvConf /\ last.file.opens) =>
        LET directives == SelectSeq(last.file.lines,
                                    LAMBDA l : /\ Len(Fields(l)) >= 2
                                               /\ Fields(l)[1] = <<"nameserver">>)
            addrs == [i \in 1..Len(directives) |-> Fields(directives[i])[2]]
            v4 == SelectSeq(addrs, LAMBDA a : ~Contains(a, ":"))
            v6 == SelectSeq(addrs, LAMBDA a : Contains(a, ":"))
        IN  /\ last.status.err = Nil
            /\ last.status.interfaces =
                  IF addrs = <<>> THEN <<>> ELSE <<InterfaceStatus(<<"system">>, v4, v6)>>

\* C16: every StatusInfo that ReadDNSConfig returns without error lists only interfaces
\* that have at least one IPv4 or IPv6 address, carries the backend that was read, and
\* has Managed false exactly for resolv.conf.
C16_NoEmptyInterfaces ==
    (last.op = "ReadDNSConfig" /\ last.status.err = Nil) =>
        /\ \A i \in 1..Len(last.status.interfaces) :
              Len(last.status.interfaces[i].ipv4) + Len(last.status.interfaces[i].ipv6) > 0
        /\ last.status.backend = last.backend
        /\ ~last.status.managed <=> last.backend = BackendResolvConf

\* C16 witness: a read of systemd-resolved whose status lists br0 without servers; the
\* result holds the other two links only.
C16_Witness ==
    /\ last.op = "ReadDNSConfig" /\ last.backend = BackendSystemdResolved
    /\ last.status.err = Nil /\ last.status.managed
    /\ sr[Br0] = <<>>
    /\ [i \in 1..Len(last.status.interfaces) |-> last.status.interfaces[i].name] = <<Eth0, Wlan0>>

\* C19: a call of Detect, DetectWithReason or ReadDNSConfig, after any earlier such
\* calls, successful or not, leaves the DNS state of NetworkManager and systemd-resolved
\* as it was, and the commands a read spawns are the three status queries.
C19_DetectAndReadChangeNothing ==
    [][(det' # det \/ last'.op = "ReadDNSConfig") =>
          /\ nm' = nm
          /\ sr' = sr
          /\ last'.op = "ReadDNSConfig" =>
                \A i \in 1..Len(last'.status.cmds) :
                    last'.status.cmds[i].verb \in
                        {"-t -f NAME,DEVICE connection show --active",
                         "-t -f IP4.DNS,IP6.DNS connection show", "status", "--status"}]_vars

\* C19 witness: DetectWithReason and then a NetworkManager read with one failed query ran
\* on a host where wlan0 has manual servers, which are still in place.
C19_Witness ==
    /\ det.op = "DetectWithReason" /\ last.op = "ReadDNSConfig"
    /\ last.backend = BackendNetworkManager
    /\ Len(last.status.warnings) = 1 /\ Len(last.status.cmds) = 4
    /\ nm[Wlan0] = NmSynced(Manual4, Manual6, Wlan0)

\* C17: cdns set with --dry-run, given a preset or addresses, never calls
\* ConfigWriter.Apply, spawns no command, never runs again under sudo whoever runs it,
\* and leaves every interface reading as before.
C17_DryRunChangesNothing ==
    (last.op = "set" /\ last.opts.DryRun) =>
        /\ ~last.applied
        /\ last.log = <<>>
        /\ ~last.escalated
        /\ last.err # ErrInsufficientPrivileges
        /\ Observe(host, nm, sr) = last.before

\* C17 witness: a dry run by a user who is not root, for two interfaces of a
\* NetworkManager host with servers that are not the current ones, ended without error.
C17_Witness ==
    /\ last.op = "set" /\ last.opts.DryRun /\ last.err = Nil
    /\ last.priv = "sudo" /\ host = BackendNetworkManager
    /\ Len(last.configs) = 2
    /\ last.configs[1].ipv4 # <<>> /\ last.configs[1].ipv4 # nm[Wlan0].dns4

\* C18: cdns reset calls Detect, then ReadDNSConfig with the detected backend, then
\* ResetToAutomatic once with that backend and the names of the interfaces the read
\* returned, in the read's order. When the read returns no interface the writer is not
\* called and the result is nil; when Detect or the read fails the result is an error
\* and no later step runs.
C18_ResetOrchestration ==
    last.op = "reset" =>
        LET d == Detect(probe)
            detect == CallOf("Detect", NoBackend, <<>>)
            read == CallOf("ReadDNSConfig", d.backend, <<>>)
            names == [i \in 1..Len(last.status.interfaces) |-> last.status.interfaces[i].name]
        IN  IF d.err # Nil
            THEN last.err # Nil /\ last.calls = <<detect>> /\ last.log = <<>>
            ELSE IF last.status.err # Nil
            THEN last.err # Nil /\ last.calls = <<detect, read>> /\ last.log = <<>>
            ELSE IF names = <<>>
            THEN last.err = Nil /\ last.calls = <<detect, read>> /\ last.log = <<>>
            ELSE /\ last.calls = <<detect, read, CallOf("ResetToAutomatic", d.backend, names)>>
                 /\ last.status.backend = d.backend
                 /\ last.err \in {Nil, "failed to reset configuration"}
                 /\ d.backend \notin WritableBackends => last.err # Nil

\* C18 witness: a reset on a NetworkManager host where the read returned wlan0 and eth0
\* called the writer with both names and succeeded.
C18_Witness ==
    /\ last.op = "reset" /\ last.err = Nil /\ host = BackendNetworkManager
    /\ Len(last.calls) = 3 /\ Len(last.calls[3].names) = 2
    /\ Len(last.log) > 0

\* C18, second case: a reset that read a resolv.conf without servers ended without error
\* and without a call of the writer.
C18_WitnessNoInterfaces ==
    /\ last.op = "reset" /\ last.err = Nil /\ Len(last.calls) = 2
    /\ last.status.err = Nil /\ last.status.interfaces = <<>>

\* C18, third case: a reset whose detection failed, and one whose read failed.
C18_WitnessDetectFails == last.op = "reset" /\ Len(last.calls) = 1 /\ last.err # Nil
C18_WitnessReadFails == last.op = "reset" /\ Len(last.calls) = 2 /\ last.err # Nil

\* the commands the claimed order prescribes for one config on NetworkManager
NMCommandsFor(cfg) ==
    IF cfg.iface = EmptyString THEN <<>>
    ELSE <<NmcliDeviceShow(cfg.iface)>>
         \o (IF cfg.ipv4 # <<>>
             THEN <<NmcliModify(ConnOf(cfg.iface), "ipv4.dns", Join(cfg.ipv4, <<" ">>), "yes")>>
             ELSE <<>>)
         \o (IF cfg.ipv6 # <<>>
             THEN <<NmcliModify(ConnOf(cfg.iface), "ipv6.dns", Join(cfg.ipv6, <<" ">>), "yes")>>
             ELSE <<>>)
         \o <<NmcliReapply(cfg.iface)>>

\* and for a list of configs, in the list's order
RECURSIVE NMCommandsFrom(_, _)
NMCommandsFrom(configs, i) ==
    IF i > Len(configs) THEN <<>>
    ELSE NMCommandsFor(configs[i]) \o NMCommandsFrom(configs, i + 1)

\* C20: the commands of Apply on NetworkManager are, config by config, the connection
\* lookup, the ipv4.dns modify with ignore-auto-dns yes iff IPv4 servers are given, the
\* ipv6.dns modify likewise, and the device reapply; configs without interface name add
\* nothing and are no error. The sequence is complete when Apply succeeds and stops with
\* the command that failed otherwise, so a reapply follows successful steps only; a
\* family without servers reads as before.
C20_ApplyNetworkManagerOrder ==
    (last.op = "Apply" /\ last.backend = BackendNetworkManager) =>
        LET expected == NMCommandsFrom(last.configs, 1)
            now == Observe(host, nm, sr)
        IN  /\ Len(last.log) <= Len(expected)
            /\ last.log = SubSeq(expected, 1, Len(last.log))
            /\ last.err = NoErr => last.log = expected
            /\ last.failAt \in 1..Len(last.log) => (Len(last.log) = last.failAt /\ last.err # NoErr)
            /\ (\A i \in 1..Len(last.configs) : last.configs[i].iface = EmptyString)
                  => last.err = NoErr
            /\ last.err = NoErr =>
                  \A i \in 1..Len(last.configs) :
                      /\ last.configs[i].ipv4 = <<>> =>
                            ServersOf(now, last.configs[i].iface).ipv4
                               = ServersOf(last.before, last.configs[i].iface).ipv4
                      /\ last.configs[i].ipv6 = <<>> =>
                            ServersOf(now, last.configs[i].iface).ipv6
                               = ServersOf(last.before, last.configs[i].iface).ipv6

\* C20 witness: Apply of IPv4 servers only, for a config without interface name and one
\* for wlan0, succeeded with three commands and wlan0's manual IPv6 servers are in place.
C20_Witness ==
    /\ last.op = "Apply" /\ last.backend = BackendNetworkManager /\ last.err = NoErr
    /\ Len(last.configs) = 2
    /\ last.configs[1].iface = EmptyString /\ last.configs[2].iface = Wlan0
    /\ last.configs[2].ipv4 # <<>> /\ last.configs[2].ipv6 = <<>>
    /\ Len(last.log) = 3
    /\ nm[Wlan0].dns6 = Manual6 /\ nm[Wlan0].ign6

\* the commands the claimed order prescribes for a reset of one interface
ResetCommandsFor(backend, iface) ==
    IF backend = BackendNetworkManager
    THEN <<NmcliDeviceShow(iface),
           NmcliModify(ConnOf(iface), "ipv4.dns", EmptyString, "no"),
           NmcliModify(ConnOf(iface), "ipv6.dns", EmptyString, "no"),
           NmcliReapply(iface)>>
    ELSE <<ResolvectlRevert(iface)>>

\* and for a list of interfaces, in the list's order
RECURSIVE ResetCommandsFrom(_, _, _)
ResetCommandsFrom(backend, interfaces, i) ==
    IF i > Len(interfaces) THEN <<>>
    ELSE ResetCommandsFor(backend, interfaces[i]) \o ResetCommandsFrom(backend, interfaces, i + 1)

\* C21: the commands of ResetToAutomatic are, interface by interface in input order, on
\* NetworkManager the connection lookup, the ipv4.dns clear with ignore-auto-dns no, the
\* ipv6.dns clear with ignore-auto-dns no and the device reapply, whatever the interface
\* had, and on systemd-resolved one revert. The sequence is complete when the call
\* succeeds; a failed command is the last one issued and the call returns an error.
C21_ResetOrder ==
    (last.op = "ResetToAutomatic" /\ last.backend \in WritableBackends) =>
        LET expected == ResetCommandsFrom(last.backend, last.names, 1)
        IN  /\ Len(last.log) <= Len(expected)
            /\ last.log = SubSeq(expected, 1, Len(last.log))
            /\ last.err = NoErr => last.log = expected
            /\ last.failAt \in 1..Len(last.log) => (Len(last.log) = last.failAt /\ last.err # NoErr)

\* C21 witness: a reset of wlan0 and eth0 on NetworkManager whose IPv4 clear for eth0
\* failed; six commands were issued, none for eth0's IPv6 servers or reapply.
C21_Witness ==
    /\ last.op = "ResetToAutomatic" /\ last.backend = BackendNetworkManager
    /\ last.names = <<Wlan0, Eth0>> /\ last.failAt = 6
    /\ last.err = WriteErr("failed to reset IPv4 DNS", Eth0)
    /\ Len(last.log) = 6

\* C21, systemd-resolved: a reset of two interfaces issued two reverts.
C21_WitnessReverts ==
    /\ last.op = "ResetToAutomatic" /\ last.backend = BackendSystemdResolved
    /\ Len(last.names) = 2 /\ last.err = NoErr /\ Len(last.log) = 2

\* C22: on NetworkManager, when the connection lookup for an interface fails or prints
\* no connection name, it is the last command of the Apply or ResetToAutomatic call, and
\* the call returns the "failed to get (active) connection" error carrying that
\* interface's name.
C22_LookupFailureNamesInterface ==
    (last.op \in {"Apply", "ResetToAutomatic"} /\ last.backend = BackendNetworkManager) =>
        \A j \in 1..Len(last.log) :
            (/\ last.log[j].verb = "-g GENERAL.CONNECTION device show"
             /\ \/ last.failAt = j
                \/ last.log[j].target \notin DeviceSet
                \/ ConnOf(last.log[j].target) = EmptyString) =>
                /\ j = Len(last.log)
                /\ last.err = WriteErr(IF last.op = "Apply" THEN "failed to get active connection"
                                       ELSE "failed to get connection",
                                       last.log[j].target)

\* C22 witness: Apply for wlan0 and then tun0, which has no connection: wlan0's four
\* commands and tun0's lookup were issued and the error names tun0.
C22_Witness ==
    /\ last.op = "Apply" /\ last.backend = BackendNetworkManager /\ last.failAt = 0
    /\ Len(last.configs) = 2
    /\ last.configs[1].iface = Wlan0 /\ last.configs[2].iface = Tun0
    /\ last.configs[1].ipv4 # <<>> /\ last.configs[1].ipv6 # <<>>
    /\ Len(last.log) = 5
    /\ last.err = WriteErr("failed to get active connection", Tun0)

\* C22, reset: a reset whose lookup command for eth0 failed names eth0.
C22_WitnessReset ==
    /\ last.op = "ResetToAutomatic" /\ last.backend = BackendNetworkManager
    /\ last.failAt = 1 /\ Len(last.log) = 1
    /\ last.err = WriteErr("failed to get connection", Eth0)

\* ---------------------------------------------------------------------------
\* Slice specification: applySystemdResolved on configs whose IPv4 and IPv6 lists are Go
\* slices of one backing array (allDNS := append(cfg.DNS.IPv4, cfg.DNS.IPv6...))
\* ---------------------------------------------------------------------------
\* the cells of the backing array and the longest list
MemSize == 3
MaxSliceLen == 2

\* a slice array[off : off+len : off+cap]
Slice(off, len, cap) == [off |-> off, len |-> len, cap |-> cap]

SliceHeaders ==
    {Slice(off, len, cap) : off \in 0..MemSize, len \in 0..MaxSliceLen, cap \in 0..MemSize}
      \cap {h \in [off : 0..MemSize, len : 0..MaxSliceLen, cap : 0..MemSize] :
              h.len <= h.cap /\ h.off + h.cap <= MemSize}

\* the array the caller's lists are cut from: distinct addresses
HeapAddrs == [k \in 1..MemSize |-> (Pool4 \o Pool6)[k]]

\* the elements of a slice
Elems(heap, s) == [k \in 1..s.len |-> heap[s.off + k]]

\* the backing array after append(s, t...): t's elements are copied behind s when s has
\* the capacity; otherwise a new array is allocated and this one is left alone
Appended(heap, s, t) ==
    IF s.len + t.len <= s.cap
    THEN [k \in DOMAIN heap |->
             IF k > s.off + s.len /\ k <= s.off + s.len + t.len
             THEN heap[t.off + (k - s.off - s.len)]
             ELSE heap[k]]
    ELSE heap

\* a caller's DNSConfig as it reads in the array
ConfigValue(heap, cfg) == DNSConfig(cfg.iface, Elems(heap, cfg.ipv4), Elems(heap, cfg.ipv6))

ConfigValues(heap, cfgs) == [i \in 1..Len(cfgs) |-> ConfigValue(heap, cfgs[i])]

\* ConfigWriter.applySystemdResolved on slices: the loop with the array it works in
RECURSIVE applySRSlicesFrom(_, _, _, _)
applySRSlicesFrom(r, heap, cfgs, i) ==
    IF i > Len(cfgs) \/ Stopped(r) THEN [run |-> r, heap |-> heap]
    ELSE IF cfgs[i].iface = EmptyString THEN applySRSlicesFrom(r, heap, cfgs, i + 1)
    ELSE applySRSlicesFrom(ReturnedAt(applySRStep(r, ConfigValue(heap, cfgs[i])), i),
                           Appended(heap, cfgs[i].ipv4, cfgs[i].ipv6), cfgs, i + 1)

\* the configs a caller passes: one config, or two with the same two lists (as setDNS
\* builds them)
SliceConfigs ==
    {<<DNSConfig(n, s4, s6)>> : n \in {Eth0, EmptyString}, s4 \in SliceHeaders, s6 \in SliceHeaders}
    \cup {<<DNSConfig(Eth0, s4, s6), DNSConfig(n, s4, s6)>> :
             n \in {Eth0, Wlan0, EmptyString}, s4 \in SliceHeaders, s6 \in SliceHeaders}

InitSlices ==
    /\ probe = ProbeSR
    /\ det = NoCall
    /\ host = BackendSystemdResolved
    /\ nm = [d \in DeviceSet |-> NmAutomatic(d)]
    /\ sr = SrDefault
    /\ last \in {[op |-> "none", heap |-> HeapAddrs, configs |-> cfgs] : cfgs \in SliceConfigs}

\* a caller invokes ConfigWriter.Apply for systemd-resolved with these configs
CallApplySlices ==
    /\ last.op = "none"
    /\ \E res \in {applySRSlicesFrom(Run(host, nm, sr, 0), last.heap, last.configs, 1)} :
          /\ sr' = res.run.sr
          /\ last' = [op |-> "applySystemdResolved", heap |-> res.heap,
                      configs |-> last.configs,
                      before |-> ConfigValues(last.heap, last.configs),
                      err |-> res.run.err, log |-> res.run.log]
    /\ UNCHANGED <<probe, det, host, nm>>

NextSlices == CallApplySlices

SpecSlices == InitSlices /\ [][NextSlices]_vars

\* the calls the claim prescribes for a list of configs
RECURSIVE SRCommandsFrom(_, _)
SRCommandsFrom(configs, i) ==
    IF i > Len(configs) THEN <<>>
    ELSE (IF configs[i].iface # EmptyString /\ configs[i].ipv4 \o configs[i].ipv6 # <<>>
          THEN <<ResolvectlDNS(configs[i].iface, configs[i].ipv4 \o configs[i].ipv6)>>
          ELSE <<>>)
         \o SRCommandsFrom(configs, i + 1)

\* C23 (as claimed): Apply on systemd-resolved issues one call per config that has an
\* interface name and an address, binding the config's IPv4 list followed by its IPv6
\* list, issues nothing and reports no error for the other configs, and the caller's
\* configs read after the call as they did before it.
C23_OneCallPerConfigValuesKept ==
    last.op = "applySystemdResolved" =>
        /\ last.err = NoErr
        /\ last.log = SRCommandsFrom(last.before, 1)
        /\ ConfigValues(last.heap, last.configs) = last.before

\* ---------------------------------------------------------------------------
\* Parser specification: parseSystemdResolvedOutput on any sequence of status lines
\* ---------------------------------------------------------------------------
\* the longest status output
MaxStatusLines == 4

\* the lines of a status output: link headers (one without a name), the three kinds of
\* address line, and lines that are neither
StatusLinePool ==
    { <<"Link", " ", "2", " ", "(">> \o Eth0 \o <<")">>,
      <<"Link", " ", "3", " ", "(">> \o Wlan0 \o <<")">>,
      <<"Link", " ", "4">>,
      <<"Current DNS Server", ":", " ">> \o Pool4[1],
      <<" ", " ", "DNS Servers", ":", " ">> \o Pool6[1],
      <<" ", " ", "-", " ">> \o Pool4[2],
      <<"Global">>,
      EmptyString }

StatusOutputs == UNION {[1..n -> StatusLinePool] : n \in 0..MaxStatusLines}

InitParse ==
    /\ probe = ProbeSR
    /\ det = NoCall
    /\ host = BackendSystemdResolved
    /\ nm = [d \in DeviceSet |-> NmAutomatic(d)]
    /\ sr = SrDefault
    /\ last \in {[op |-> "none", lines |-> ls] : ls \in StatusOutputs}

\* the reader parses a status output
CallParse ==
    /\ last.op = "none"
    /\ last' = [op |-> "parseSystemdResolvedOutput", lines |-> last.lines,
                interfaces |-> parseSystemdResolvedOutput(last.lines)]
    /\ UNCHANGED <<probe, det, host, nm, sr>>

NextParse == CallParse

SpecParse == InitParse /\ [][NextParse]_vars

\* a "Link" header line, and the interface it names (none when the name is missing)
IsLinkHeader(line) == HasPrefix(TrimSpace(line), <<"Link", " ">>)

HeaderName(line) ==
    IF Len(Fields(TrimSpace(line))) >= 3 THEN TrimParens(Fields(TrimSpace(line))[3])
    ELSE EmptyString

\* the address of an address line; the empty string on any other line
AddressOn(line) ==
    IF \/ HasPrefix(TrimSpace(line), <<"Current DNS Server", ":">>)
       \/ HasPrefix(TrimSpace(line), <<"DNS Servers", ":">>)
       \/ HasPrefix(TrimSpace(line), <<"-", " ">>)
    THEN TrimSpace(SubSeq(TrimSpace(line), 3, Len(TrimSpace(line))))
    ELSE EmptyString

\* the addresses on the lines between the header at h and the next header
RECURSIVE SectionAddresses(_, _)
SectionAddresses(lines, k) ==
    IF k > Len(lines) \/ IsLinkHeader(lines[k]) THEN <<>>
    ELSE (IF AddressOn(lines[k]) # EmptyString THEN <<AddressOn(lines[k])>> ELSE <<>>)
         \o SectionAddresses(lines, k + 1)

SectionStatus(name, addrs) ==
    InterfaceStatus(name, SelectSeq(addrs, LAMBDA a : ~Contains(a, ":")),
                    SelectSeq(addrs, LAMBDA a : Contains(a, ":")))

\* one InterfaceStatus per named header that has addresses, in header order
RECURSIVE SectionsFrom(_, _)
SectionsFrom(lines, h) ==
    IF h > Len(lines) THEN <<>>
    ELSE (IF /\ IsLinkHeader(lines[h])
             /\ HeaderName(lines[h]) # EmptyString
             /\ SectionAddresses(lines, h + 1) # <<>>
          THEN <<SectionStatus(HeaderName(lines[h]), SectionAddresses(lines, h + 1))>>
          ELSE <<>>)
         \o SectionsFrom(lines, h + 1)

\* C24 (as claimed): for any sequence of status lines the parser returns, in header
\* order, one InterfaceStatus per "Link" header that has address lines before the next
\* header, holding exactly those addresses, IPv6 if they contain a colon and IPv4
\* otherwise; address lines before the first header are ignored.
C24_AddressesGoToNearestHeader ==
    last.op = "parseSystemdResolvedOutput" => last.interfaces = SectionsFrom(last.lines, 1)

\* the same for outputs whose headers all carry a name
C24_NamedHeadersOnly ==
    (/\ last.op = "parseSystemdResolvedOutput"
     /\ \A k \in 1..Len(last.lines) :
           IsLinkHeader(last.lines[k]) => HeaderName(last.lines[k]) # EmptyString) =>
        last.interfaces = SectionsFrom(last.lines, 1)

\* C25: when ServiceRunning("NetworkManager") reports not running, resolvectl or
\* systemd-resolve exists and ServiceRunning("systemd-resolved") reports running,
\* Detect() returns systemd-resolved with no error whatever the /etc/resolv.conf probes
\* report; when NetworkManager is not running and neither tool exists, the
\* systemd-resolved service is not queried and systemd-resolved is not returned.
C25_SystemdResolvedNeedsATool ==
    /\ (/\ Called("Detect") /\ ~probe.nmService.val
        /\ (probe.resolvectl \/ probe.systemdResolve)
        /\ probe.srService.val /\ ~probe.srService.err)
          => (det.backend = BackendSystemdResolved /\ det.err = Nil)
    /\ (/\ Called("Detect") /\ ~probe.nmService.val
        /\ ~probe.resolvectl /\ ~probe.systemdResolve)
          => (/\ ~Queried("ServiceRunning(systemd-resolved)")
              /\ det.backend # BackendSystemdResolved)

\* C25 witness: Detect() ran with NetworkManager not running, no tool installed, the
\* systemd-resolved service running and /etc/resolv.conf a regular file.
C25_Witness ==
    /\ Called("Detect") /\ ~probe.nmService.val
    /\ ~probe.resolvectl /\ ~probe.systemdResolve
    /\ probe.srService.val /\ ~probe.srService.err
    /\ probe.fileExists /\ ~probe.isSymlink.val /\ ~probe.isSymlink.err
    /\ probe.isRegular.val /\ ~probe.isRegular.err
    /\ det.backend = BackendResolvConf

\* C25, first case: systemd-resolve alone is installed, the NetworkManager query failed
\* and /etc/resolv.conf is a symlink; systemd-resolved was returned.
C25_WitnessSelected ==
    /\ Called("Detect") /\ ~probe.nmService.val /\ probe.nmService.err
    /\ ~probe.resolvectl /\ probe.systemdResolve
    /\ probe.srService.val /\ ~probe.srService.err
    /\ probe.fileExists /\ probe.isSymlink.val
    /\ det.backend = BackendSystemdResolved

\* C26 (as claimed): cdns set calls ConfigWriter.Apply only when --yes was given or the
\* user answered y or yes to the confirmation prompt.
C26_ApplyOnlyWhenConfirmed ==
    (last.op = "set" /\ last.applied) => (last.opts.Yes \/ last.answer \in {"y", "yes"})

\* C26 (amended): cdns set calls ConfigWriter.Apply only without --dry-run, after the
\* interface names were validated and a backend was detected, and when --yes was given,
\* or standard output is not a terminal (no prompt is shown then), or the user answered
\* y or yes. A declined prompt returns ErrUserCancelled, an unreadable answer returns
\* an error, and without a call of Apply no command is spawned and nothing changes.
C26_ApplyOnlyWhenConfirmedOrNoTerminal ==
    last.op = "set" =>
        /\ last.applied =>
              /\ ~last.opts.DryRun
              /\ last.opts.Yes \/ ~last.tty \/ last.answer \in {"y", "yes"}
              /\ ValidateInterfaces(last.opts.Interfaces, 1) = Nil
              /\ Detect(probe).err = Nil
        /\ (/\ ~last.opts.DryRun /\ ~last.opts.Yes /\ last.tty
            /\ last.err \notin {ErrInsufficientPrivileges, "failed to detect DNS backend"}
            /\ ValidateInterfaces(last.opts.Interfaces, 1) = Nil) =>
              /\ last.answer = "n" => (last.err = ErrUserCancelled /\ ~last.applied)
              /\ last.answer = "eof" => (last.err = "failed to read confirmation" /\ ~last.applied)
        /\ ~last.applied => (last.log = <<>> /\ Observe(host, nm, sr) = last.before)

\* C26 witness: cdns set without --yes and without a terminal applied new servers to
\* eth0 on a NetworkManager host; no answer was asked for.
C26_Witness ==
    /\ last.op = "set" /\ last.applied /\ last.err = Nil
    /\ ~last.opts.Yes /\ ~last.tty /\ last.answer = ""
    /\ host = BackendNetworkManager /\ last.opts.Interfaces = <<Eth0>>
    /\ Len(last.log) > 0

\* C26, declined: the prompt was answered n; nothing was applied.
C26_WitnessDeclined ==
    /\ last.op = "set" /\ last.answer = "n" /\ last.err = ErrUserCancelled /\ ~last.applied

\* ---------------------------------------------------------------------------
\* Exit code specification: the errors of set/validation.go and of the set service, and
\* ExitCodeFromError. An error is the chain errors.Is walks: the messages of the
\* wrapping errors, outermost first, then the sentinel; nil is the empty chain.
\* ---------------------------------------------------------------------------
ErrEmptyDNSAddress == "DNS address cannot be empty"
ErrInvalidDNSAddress == "invalid DNS address"
ErrNoDNSAddresses == "at least one DNS address required"
ErrInvalidPresetName == "invalid preset name"
ErrEmptyPresetName == "preset name cannot be empty"

NilError == <<>>

\* errors.New(msg), and fmt.Errorf without %w
NewError(msg) == <<msg>>

\* fmt.Errorf(format with %w, err)
Wrapf(format, err) == <<format>> \o err

\* errors.Is(err, target)
ErrorsIs(err, target) == \E k \in 1..Len(err) : err[k] = target

\* set.ValidateDNSAddress
ValidateDNSAddress(address) ==
    IF address = EmptyString THEN NewError(ErrEmptyDNSAddress)
    ELSE IF ~ParsesAsIP(address) THEN Wrapf("%w: %s", NewError(ErrInvalidDNSAddress))
    ELSE NilError

\* set.ValidateDNSAddresses
RECURSIVE ValidateDNSAddressesFrom(_, _)
ValidateDNSAddressesFrom(addresses, k) ==
    IF k > Len(addresses) THEN NilError
    ELSE IF ValidateDNSAddress(addresses[k]) # NilError
    THEN Wrapf("invalid DNS address %q: %w", ValidateDNSAddress(addresses[k]))
    ELSE ValidateDNSAddressesFrom(addresses, k + 1)

ValidateDNSAddresses(addresses) ==
    IF Len(addresses) = 0 THEN NewError(ErrNoDNSAddresses)
    ELSE ValidateDNSAddressesFrom(addresses, 1)

\* strings.ToLower on the preset names of the model
ToLower(name) ==
    IF name = <<"Google">> THEN <<"google">>
    ELSE IF name = <<"Quad9">> THEN <<"quad9">>
    ELSE name

\* presets.Get: found
PresetFound(name) == name \in {<<"cloudflare">>, <<"google">>, <<"quad9">>}

\* set.ValidatePresetName
ValidatePresetName(name) ==
    IF name = EmptyString THEN NewError(ErrEmptyPresetName)
    ELSE IF ~PresetFound(ToLower(name))
    THEN Wrapf("%w: %s (use 'cdns list' to see all available presets)", NewError(ErrInvalidPresetName))
    ELSE NilError

\* len(name) > 15, on the names of the model
LongerThan15(name) == name = <<"enp0s31f6u1u2u3c2">>

\* set.ValidateInterfaceName with the errors it builds
ValidateInterfaceNameError(name) ==
    IF name = EmptyString THEN NewError(ErrEmptyInterfaceName)
    ELSE IF LongerThan15(name)
    THEN Wrapf("%w: name too long (max 15 characters)", NewError(ErrInvalidInterfaceName))
    ELSE IF ValidateInterfaceName(name) # Nil
    THEN Wrapf("%w: %s (must contain only letters, numbers, hyphens, and underscores)",
               NewError(ErrInvalidInterfaceName))
    ELSE NilError

\* SetCustom, SetPreset and setDNS up to their validation
SetCustomValidation(dnsAddresses) ==
    IF ValidateDNSAddresses(dnsAddresses) # NilError
    THEN Wrapf("validation failed: %w", ValidateDNSAddresses(dnsAddresses))
    ELSE NilError

SetPresetValidation(presetName) ==
    IF PresetFound(ToLower(presetName)) THEN NilError
    ELSE Wrapf("validation failed: %w: %s", NewError(ErrInvalidPresetName))

RECURSIVE setDNSValidation(_, _)
setDNSValidation(interfaces, k) ==
    IF k > Len(interfaces) THEN NilError
    ELSE IF ValidateInterfaceNameError(interfaces[k]) # NilError
    THEN Wrapf("validation failed: %w", ValidateInterfaceNameError(interfaces[k]))
    ELSE setDNSValidation(interfaces, k + 1)

\* set.ExitCode
ExitSuccess == 0
ExitValidationError == 2
ExitPermissionError == 3
ExitPartialFailure == 4

\* set.ExitCodeFromError
ExitCodeFromError(err) ==
    IF err = NilError THEN ExitSuccess
    ELSE IF ErrorsIs(err, ErrInsufficientPrivileges) THEN ExitPermissionError
    ELSE IF \/ ErrorsIs(err, ErrInvalidDNSAddress)
            \/ ErrorsIs(err, ErrNoDNSAddresses)
            \/ ErrorsIs(err, ErrInvalidPresetName)
            \/ ErrorsIs(err, ErrEmptyPresetName)
            \/ ErrorsIs(err, ErrInvalidInterfaceName)
            \/ ErrorsIs(err, ErrEmptyInterfaceName)
    THEN ExitValidationError
    ELSE ExitPartialFailure

\* the longest address list and interface list validated
MaxAddrs == 2

\* what is validated: addresses, preset names, interface names
AddressPool == {Pool4[1], Pool6[1], EmptyString, <<"dns", " ", "one">>}
AddressLists == UNION {[1..n -> AddressPool] : n \in 0..MaxAddrs}
PresetNames == {EmptyString, <<"google">>, <<"Google">>, <<"nosuch">>}
InterfaceNamePool == {EmptyString, Eth0, <<"eth", " ", "0">>, <<"enp0s31f6u1u2u3c2">>}
InterfaceLists == UNION {[1..n -> InterfaceNamePool] : n \in 0..MaxAddrs}

\* the errors of the set command that come from no validation
OtherErrors ==
    {NilError, NewError(ErrInsufficientPrivileges), NewError(ErrUserCancelled),
     Wrapf("failed to detect DNS backend: %w", NewError(ErrNoBackend)),
     Wrapf("failed to apply DNS: %w", NewError("unsupported backend for writing")),
     NewError("invalid argument: not a known preset or valid IP address")}

ErrorCall(fn, arg) == [fn |-> fn, arg |-> arg]

Validators == {"ValidateDNSAddress", "ValidateDNSAddresses", "ValidatePresetName",
               "ValidateInterfaceName", "SetCustom", "SetPreset", "setDNS"}

ErrorCalls ==
    {ErrorCall("ValidateDNSAddress", a) : a \in AddressPool}
    \cup {ErrorCall("ValidateDNSAddresses", l) : l \in AddressLists}
    \cup {ErrorCall("ValidatePresetName", n) : n \in PresetNames}
    \cup {ErrorCall("ValidateInterfaceName", n) : n \in InterfaceNamePool}
    \cup {ErrorCall("SetCustom", l) : l \in AddressLists}
    \cup {ErrorCall("SetPreset", n) : n \in PresetNames}
    \cup {ErrorCall("setDNS", l) : l \in InterfaceLists}
    \cup {ErrorCall("other", e) : e \in OtherErrors}

\* the error a call returns
ErrorOf(call) ==
    IF call.fn = "ValidateDNSAddress" THEN ValidateDNSAddress(call.arg)
    ELSE IF call.fn = "ValidateDNSAddresses" THEN ValidateDNSAddresses(call.arg)
    ELSE IF call.fn = "ValidatePresetName" THEN ValidatePresetName(call.arg)
    ELSE IF call.fn = "ValidateInterfaceName" THEN ValidateInterfaceNameError(call.arg)
    ELSE IF call.fn = "SetCustom" THEN SetCustomValidation(call.arg)
    ELSE IF call.fn = "SetPreset" THEN SetPresetValidation(call.arg)
    ELSE IF call.fn = "setDNS" THEN setDNSValidation(call.arg, 1)
    ELSE call.arg

InitExit ==
    /\ probe = ProbeNM
    /\ det = NoCall
    /\ host = BackendNetworkManager
    /\ nm = [d \in DeviceSet |-> NmAutomatic(d)]
    /\ sr = SrDefault
    /\ last \in {[op |-> "none", call |-> c] : c \in ErrorCalls}

\* the set command maps the error it got to its exit code
CallExitCodeFromError ==
    /\ last.op = "none"
    /\ last' = [op |-> "ExitCodeFromError", call |-> last.call, err |-> ErrorOf(last.call),
                code |-> ExitCodeFromError(ErrorOf(last.call))]
    /\ UNCHANGED <<probe, det, host, nm, sr>>

NextExit == CallExitCodeFromError

SpecExit == InitExit /\ [][NextExit]_vars

\* C27 (as claimed): ExitCodeFromError gives 0 for nil, 3 for ErrInsufficientPrivileges,
\* 2 for every error the four validation functions return, also when the set service
\* wrapped it, and 4 for every other error.
C27_ExitCodes ==
    last.op = "ExitCodeFromError" =>
        last.code = IF last.err = NilError THEN 0
                    ELSE IF last.err = NewError(ErrInsufficientPrivileges) THEN 3
                    ELSE IF last.call.fn \in Validators THEN 2
                    ELSE 4

\* the same without the empty address
C27_ExitCodesOfNonEmptyAddresses ==
    (/\ last.op = "ExitCodeFromError"
     /\ ~ErrorsIs(last.err, ErrEmptyDNSAddress)) => C27_ExitCodes

\* ---------------------------------------------------------------------------
\* The interactive wizard: the Bubble Tea model of the set feature and
\* Service.RunInteractiveSet, which runs it and acts on its final state.
\* ---------------------------------------------------------------------------

\* the steps of the wizard
stepSelectPreset == "stepSelectPreset"

stepInputCustom == "stepInputCustom"

stepSelectInterface == "stepSelectInterface"

stepConfirm == "stepConfirm"

stepDone == "stepDone"

\* tea.KeyMsg values; every other key is named by the character it types
KeyEnter == "enter"

KeyEsc == "esc"

KeyCtrlC == "ctrl+c"

KeyUp == "up"

KeyDown == "down"

WindowSizeMsg == "WindowSizeMsg"

\* the characters of the model's keyboard that reach the text input ("q" never does)
Runes == {"c", " ", ","}

Keys == {KeyEnter, KeyEsc, KeyCtrlC, KeyUp, KeyDown, "q"} \cup Runes

\* input.CharLimit: the text input drops what is typed beyond it
CharLimit == 2

\* m.table.SetHeight(8)
TableHeight == 8

\* terminal sizes a tea.WindowSizeMsg carries
WindowSizes == {<<120, 40>>}

\* the first column of the rows initPresetTable builds: the built-in presets by
\* name, capitalised, and the custom entry last
PresetRows == << <<"Google">>, <<"Quad9">>, <<"CUSTOM">> >>

CustomRow == <<"CUSTOM">>

AllInterfaces == <<"All Interfaces">>

\* the first column of the rows initInterfaceTable builds
InterfaceRows(interfaces) == <<AllInterfaces>> \o interfaces

\* the interface lists detectInterfaces hands to newModel (empty when it failed)
WizardInterfaces == {<<>>, <<Eth0>>}

\* table.Model: clamp of the cursor into the rows
ClampCursor(n, rows) == IF n < 0 \/ rows = <<>> THEN 0 ELSE IF n > Len(rows) - 1 THEN Len(rows) - 1 ELSE n

\* model.initPresetTable: SetRows, then SetCursor(0)
initPresetTable(m) == [m EXCEPT !.rows = PresetRows, !.cursor = 0]

\* model.initInterfaceTable: SetRows with nothing, SetRows with the rows, and
\* SetCursor(1) only when an interface exists. The table component is not part of
\* the repository: a build whose SetRows clamps the cursor leaves it at -1 after
\* the empty SetRows, a build whose SetRows does not leaves it where it was.
initInterfaceTable(m, clamps) ==
    [m EXCEPT !.rows = InterfaceRows(m.interfaces),
              !.cursor = IF m.interfaces # <<>> THEN 1
                         ELSE IF clamps THEN -1
                         ELSE m.cursor]

\* table.Model.SelectedRow() != nil
HasSelectedRow(m) == m.cursor >= 0 /\ m.cursor < Len(m.rows)

\* table.Model.SelectedRow()[0]
SelectedRow(m) == m.rows[m.cursor + 1]

\* table.Model.Update: the keys that move the cursor (space pages down)
tableUpdate(m, msg) ==
    IF msg = KeyUp THEN [m EXCEPT !.cursor = ClampCursor(m.cursor - 1, m.rows)]
    ELSE IF msg = KeyDown THEN [m EXCEPT !.cursor = ClampCursor(m.cursor + 1, m.rows)]
    ELSE IF msg = " " THEN [m EXCEPT !.cursor = ClampCursor(m.cursor + TableHeight, m.rows)]
    ELSE m

\* textinput.Model.Update: a typed character is appended up to CharLimit
inputUpdate(m, msg) ==
    IF msg \in Runes /\ Len(m.input) < CharLimit THEN [m EXCEPT !.input = Append(m.input, msg)]
    ELSE m

\* an index out of range in Update: the program ends without a final state of its own
Panicked(m) == [m EXCEPT !.panicked = TRUE]

\* tea.Quit was returned: the program ends once the quit message is handled
Quit(m) == [m EXCEPT !.quit = TRUE]

\* Update, case stepSelectPreset, on Enter
EnterOnPresetTable(m, clamps) ==
    IF ~HasSelectedRow(m) THEN Panicked(m)
    ELSE IF SelectedRow(m) = CustomRow THEN [m EXCEPT !.isCustom = TRUE, !.step = stepInputCustom]
    ELSE initInterfaceTable([m EXCEPT !.isCustom = FALSE,
                                      !.selectedPreset = SelectedRow(m),
                                      !.step = stepSelectInterface], clamps)

\* a variant of EnterOnInput that accepts an empty value
EnterOnInputAnyValue(m, clamps) ==
    initInterfaceTable([m EXCEPT !.customDNS = TrimSpace(m.input),
                                 !.step = stepSelectInterface], clamps)

\* Update, case stepInputCustom, on Enter
EnterOnInput(m, clamps) ==
    IF TrimSpace(m.input) # EmptyString
    THEN initInterfaceTable([m EXCEPT !.customDNS = TrimSpace(m.input),
                                      !.step = stepSelectInterface], clamps)
    ELSE m

\* Update, case stepSelectInterface, on Enter
EnterOnInterfaceTable(m) ==
    IF ~HasSelectedRow(m) THEN Panicked(m)
    ELSE Quit([m EXCEPT !.selectedIface = SelectedRow(m), !.step = stepDone])

\* Update, case stepConfirm
UpdateConfirm(m, msg) ==
    IF msg \in {"y", KeyEnter} THEN Quit([m EXCEPT !.step = stepDone])
    ELSE IF msg = "n" THEN Quit([m EXCEPT !.quitting = TRUE])
    ELSE m

\* Update: the switch on m.step
UpdateStep(m, msg, clamps) ==
    IF m.step = stepSelectPreset
    THEN (IF msg = KeyEnter THEN EnterOnPresetTable(tableUpdate(m, msg), clamps) ELSE tableUpdate(m, msg))
    ELSE IF m.step = stepInputCustom
    THEN (IF msg = KeyEnter THEN EnterOnInput(inputUpdate(m, msg), clamps) ELSE inputUpdate(m, msg))
    ELSE IF m.step = stepSelectInterface
    THEN (IF msg = KeyEnter THEN EnterOnInterfaceTable(tableUpdate(m, msg)) ELSE tableUpdate(m, msg))
    ELSE IF m.step = stepConfirm /\ msg # WindowSizeMsg
    THEN UpdateConfirm(m, msg)
    ELSE m

\* Update on a tea.KeyMsg
UpdateKey(m, key, clamps) ==
    IF key \in {KeyCtrlC, "q"} THEN Quit([m EXCEPT !.quitting = TRUE])
    ELSE IF key = "c" /\ m.step = stepSelectPreset
    THEN [m EXCEPT !.isCustom = TRUE, !.step = stepInputCustom]
    ELSE IF key = KeyEsc
    THEN (IF m.step \in {stepInputCustom, stepSelectInterface}
          THEN initPresetTable([m EXCEPT !.step = stepSelectPreset])
          ELSE IF m.step = stepConfirm THEN [m EXCEPT !.step = stepSelectInterface]
          ELSE m)
    ELSE UpdateStep(m, key, clamps)

\* Update on a tea.WindowSizeMsg
UpdateWindowSize(m, size, clamps) ==
    UpdateStep((IF m.step = stepSelectPreset
                THEN initPresetTable([m EXCEPT !.width = size[1], !.height = size[2]])
                ELSE IF m.step = stepSelectInterface
                THEN initInterfaceTable([m EXCEPT !.width = size[1], !.height = size[2]], clamps)
                ELSE [m EXCEPT !.width = size[1], !.height = size[2]]),
               WindowSizeMsg, clamps)

\* newModel
newModel(interfaces) ==
    initPresetTable([step |-> stepSelectPreset, rows |-> <<>>, cursor |-> 0, input |-> EmptyString,
                     interfaces |-> interfaces, isCustom |-> FALSE, selectedPreset |-> EmptyString,
                     customDNS |-> EmptyString, selectedIface |-> EmptyString,
                     width |-> 0, height |-> 0, quitting |-> FALSE,
                     quit |-> FALSE, panicked |-> FALSE])

\* no call of the set service
NoSetCall == [fn |-> "none"]

\* strings.TrimSpace on every element
TrimEach(list) == [i \in 1..Len(list) |-> TrimSpace(list[i])]

\* opts.Interfaces as RunInteractiveSet fills it
WizardTarget(m) == IF m.selectedIface # AllInterfaces THEN <<m.selectedIface>> ELSE <<>>

\* Service.RunInteractiveSet after p.Run(): the error it returns by itself and the
\* service call whose result it returns otherwise
RunInteractiveSetResult(m) ==
    IF m.panicked THEN [err |-> "failed to run interactive mode", call |-> NoSetCall]
    ELSE IF m.quitting THEN [err |-> ErrUserCancelled, call |-> NoSetCall]
    ELSE IF m.isCustom
    THEN [err |-> Nil,
          call |-> [fn |-> "SetCustom", arg |-> TrimEach(Split(m.customDNS, ",")),
                    opts |-> SetOptions(WizardTarget(m), FALSE, TRUE)]]
    ELSE [err |-> Nil,
          call |-> [fn |-> "SetPreset", arg |-> ToLower(m.selectedPreset),
                    opts |-> SetOptions(WizardTarget(m), FALSE, TRUE)]]

\* what the wizard specification keeps: the model, the last message and the step it
\* met, and the table build
WizardState(op, m, msg, from, clamps, res) ==
    [op |-> op, m |-> m, msg |-> msg, from |-> from, clamps |-> clamps,
     err |-> res.err, call |-> res.call]

InitWizard ==
    /\ probe = ProbeNM
    /\ det = NoCall
    /\ host = BackendNetworkManager
    /\ nm = [d \in DeviceSet |-> NmAutomatic(d)]
    /\ sr = SrDefault
    /\ last \in {WizardState("newModel", newModel(i), "none", stepSelectPreset, c,
                             [err |-> Nil, call |-> NoSetCall])
                 : i \in WizardInterfaces, c \in BOOLEAN}

\* the program is still handling messages
WizardRunning == last.op \in {"newModel", "Update"} /\ ~last.m.panicked

\* a key message reaches Update
SendKey ==
    /\ WizardRunning
    /\ \E key \in Keys :
          last' = WizardState("Update", UpdateKey(last.m, key, last.clamps), key, last.m.step,
                              last.clamps, [err |-> Nil, call |-> NoSetCall])
    /\ UNCHANGED <<probe, det, host, nm, sr>>

\* a window-size message reaches Update
SendWindowSize ==
    /\ WizardRunning
    /\ \E size \in WindowSizes :
          last' = WizardState("Update", UpdateWindowSize(last.m, size, last.clamps), WindowSizeMsg,
                              last.m.step, last.clamps, [err |-> Nil, call |-> NoSetCall])
    /\ UNCHANGED <<probe, det, host, nm, sr>>

\* p.Run() returns, after tea.Quit or a panic, and RunInteractiveSet acts on the final state
FinishRun ==
    /\ last.op \in {"newModel", "Update"}
    /\ last.m.quit \/ last.m.panicked
    /\ last' = WizardState("RunInteractiveSet", last.m, last.msg, last.from, last.clamps,
                           RunInteractiveSetResult(last.m))
    /\ UNCHANGED <<probe, det, host, nm, sr>>

NextWizard == SendKey \/ SendWindowSize \/ FinishRun

SpecWizard == InitWizard /\ [][NextWizard]_vars

\* the preset rows that name a preset
PresetRowNames == {PresetRows[i] : i \in 1..Len(PresetRows)} \ {CustomRow}

\* C28: in the wizard, for every sequence of key and window-size messages from
\* stepSelectPreset, the step becomes stepDone only by Enter on the interface
\* table; in stepDone selectedIface is non-empty and either isCustom holds with a
\* non-empty customDNS or isCustom is false and selectedPreset is a preset row;
\* stepConfirm is never reached; q and Ctrl-C set quitting, and with quitting set
\* in the final state p.Run hands back RunInteractiveSet returns ErrUserCancelled
\* and calls nothing that applies.
C28_WizardEndsOnlyOnTheInterfaceTable ==
    last.op \in {"newModel", "Update", "RunInteractiveSet"} =>
        /\ last.m.step # stepConfirm
        /\ (last.m.step = stepDone /\ last.from # stepDone)
              => (last.from = stepSelectInterface /\ last.msg = KeyEnter)
        /\ last.m.step = stepDone =>
              /\ last.m.selectedIface # EmptyString
              /\ \/ last.m.isCustom /\ last.m.customDNS # EmptyString
                 \/ ~last.m.isCustom /\ last.m.selectedPreset \in PresetRowNames
        /\ (last.op = "Update" /\ last.msg \in {"q", KeyCtrlC}) => last.m.quitting
        /\ (last.op = "RunInteractiveSet" /\ last.m.quitting) => last.call = NoSetCall
        /\ (last.op = "RunInteractiveSet" /\ last.m.quitting /\ ~last.m.panicked)
              => last.err = ErrUserCancelled
        /\ (last.op = "RunInteractiveSet" /\ last.call # NoSetCall)
              => (last.m.step = stepDone /\ ~last.m.quitting)

\* a custom entry typed, the interface chosen, and the run handed to SetCustom
C28_Witness ==
    /\ last.op = "RunInteractiveSet"
    /\ last.m.step = stepDone
    /\ last.m.isCustom
    /\ last.call # NoSetCall
    /\ last.call.fn = "SetCustom"

\* a preset chosen after a custom entry was typed and left with Esc
C28_WitnessPresetAfterCustom ==
    /\ last.op = "RunInteractiveSet"
    /\ last.m.step = stepDone
    /\ ~last.m.isCustom
    /\ last.m.customDNS # EmptyString
    /\ last.call # NoSetCall
    /\ last.call.fn = "SetPreset"

\* q typed into the custom input ends the run as cancelled
C28_WitnessQuit ==
    /\ last.op = "RunInteractiveSet"
    /\ last.from = stepInputCustom
    /\ last.msg = "q"
    /\ last.err = ErrUserCancelled

\* q arrives after Enter on the interface table and before the quit is handled
C28_WitnessQuitAfterDone ==
    /\ last.op = "RunInteractiveSet"
    /\ last.m.step = stepDone
    /\ last.m.quitting
    /\ last.err = ErrUserCancelled

\* C29: Detect() returns the backend and the error of DetectWithReason() and no
\* reason; over all probe results both return, without an error, only
\* NetworkManager, systemd-resolved or resolv.conf, and no backend with an error;
\* netplan is never returned; ReadDNSConfig accepts every backend they return.
C29_DetectReturnsReadableBackends ==
    /\ Called("Detect") =>
          /\ det.backend = DetectWithReason(probe).backend
          /\ det.err = DetectWithReason(probe).err
          /\ "reason" \notin DOMAIN det
    /\ (Called("Detect") \/ Called("DetectWithReason")) =>
          /\ det.backend # BackendNetplan
          /\ det.err # Nil => det.backend = NoBackend
          /\ det.err = Nil =>
                /\ det.backend \in {BackendNetworkManager, BackendSystemdResolved, BackendResolvConf}
                /\ \A fails \in BOOLEAN :
                      ReadDNSConfig(Sys, det.backend, fails, {}).err # "unsupported backend"

\* C29 witness: Detect() returned resolv.conf, which ReadDNSConfig reads, while the
\* reader refuses netplan.
C29_Witness ==
    /\ Called("Detect")
    /\ det.err = Nil
    /\ det.backend = BackendResolvConf
    /\ ReadDNSConfig(Sys, det.backend, FALSE, {}).err = Nil
    /\ ReadDNSConfig(Sys, BackendNetplan, FALSE, {}).err = "unsupported backend"

\* C29: DetectWithReason() found no backend and returned none
C29_WitnessNoBackend ==
    /\ Called("DetectWithReason")
    /\ det.err = ErrNoBackend
    /\ det.backend = NoBackend

\* ---------------------------------------------------------------------------
\* SeparateIPv4AndIPv6 on arbitrary address lists
\* ---------------------------------------------------------------------------
MaxSeparate == 3

\* an IPv4 address, the same kind padded with blanks, an IPv6 address, an
\* IPv4-mapped IPv6 address, a name, the empty string and a blank
PaddedAddress == <<" ", "8", ".", "8", " ">>

MappedAddress == <<":", ":", "ffff", ":", "1", ".", "1">>

SeparatePool ==
    {Pool4[2], PaddedAddress, Pool6[1], MappedAddress, <<"dns", " ", "one">>, EmptyString, <<" ">>}

SeparateInputs == UNION {[1..n -> SeparatePool] : n \in 0..MaxSeparate}

InitSeparate ==
    /\ probe = ProbeNM
    /\ det = NoCall
    /\ host = BackendNetworkManager
    /\ nm = [d \in DeviceSet |-> NmAutomatic(d)]
    /\ sr = SrDefault
    /\ last \in {[op |-> "none", addresses |-> l] : l \in SeparateInputs}

\* a caller separates its address list
CallSeparate ==
    /\ last.op = "none"
    /\ last' = [op |-> "SeparateIPv4AndIPv6", addresses |-> last.addresses,
                ipv4 |-> SeparateIPv4AndIPv6(last.addresses).ipv4,
                ipv6 |-> SeparateIPv4AndIPv6(last.addresses).ipv6]
    /\ UNCHANGED <<probe, det, host, nm, sr>>

NextSeparate == CallSeparate

SpecSeparate == InitSeparate /\ [][NextSeparate]_vars

\* the entries of a list that parse as an IP with a 4-byte form
OnlyIPv4(list) == SelectSeq(list, LAMBDA a : ParsesAsIP(a) /\ HasTo4(a))

\* the entries of a list that parse as an IP without a 4-byte form
OnlyIPv6(list) == SelectSeq(list, LAMBDA a : ParsesAsIP(a) /\ ~HasTo4(a))

\* C30 (as claimed): the IPv4 output is the input restricted to the entries that
\* parse as an IP with a 4-byte form, the IPv6 output the input restricted to the
\* other entries that parse as an IP, each in input order; empty and unparseable
\* entries are in neither; an empty input gives two empty outputs.
C30_SeparatePartitionsInput ==
    last.op = "SeparateIPv4AndIPv6" =>
        /\ last.ipv4 = OnlyIPv4(last.addresses)
        /\ last.ipv6 = OnlyIPv6(last.addresses)
        /\ last.addresses = <<>> => (last.ipv4 = <<>> /\ last.ipv6 = <<>>)

\* C30 (amended): the same of the input with the blanks around every entry removed
C30_SeparatePartitionsTrimmedInput ==
    last.op = "SeparateIPv4AndIPv6" =>
        /\ last.ipv4 = OnlyIPv4(TrimEach(last.addresses))
        /\ last.ipv6 = OnlyIPv6(TrimEach(last.addresses))
        /\ last.addresses = <<>> => (last.ipv4 = <<>> /\ last.ipv6 = <<>>)

\* C30 witness: a padded address, an IPv4-mapped one and an IPv6 one were separated
C30_Witness ==
    /\ last.op = "SeparateIPv4AndIPv6"
    /\ last.addresses = <<PaddedAddress, Pool6[1], MappedAddress>>
    /\ last.ipv4 = <<TrimSpace(PaddedAddress), MappedAddress>>
    /\ last.ipv6 = <<Pool6[1]>>

====
